---- MODULE Spec2Model ----
(***************************************************************************)
(* Expense manager: the deduplicating persistence gateway (upsertExpense,  *)
(* src/src/services/firestoreService.ts) and the import job orchestrator   *)
(* (upload, src/src/composables/useUpload.ts), over a Firestore-like       *)
(* document store with optimistic transactions.                            *)
(*                                                                         *)
(* Specifications:                                                         *)
(*   SpecUpsert  callers invoke upsertExpense directly, any policy mix     *)
(*   Spec        two upload() invocations (two tabs) over one store        *)
(*   SpecNormalize  calls of the normalizers and of computeFingerprint     *)
(*   SpecParse   calls of the four statement parsers                       *)
(*   SpecPoll    one useJob instance polling the importJobs collection     *)
(***************************************************************************)
EXTENDS Integers, Sequences, FiniteSets, TLC

VARIABLES
    expenses,     \* the 'expenses' collection: document key -> document
    docVersion,   \* write version of each expense document (Firestore updateTime)
    autoIds,      \* number of auto-generated document ids handed out so far
    now,          \* the wall clock read by new Date()
    tx,           \* per caller: the upsertExpense call in flight (or the last one)
    calls,        \* number of upsertExpense calls made so far (SpecUpsert)
    createdCount, \* history: key -> number of calls that returned 'created' for it
    markDupUsed,  \* history: some call so far ran under policy 'mark_duplicate'
    faults,       \* number of store failures injected so far
    jobs,         \* the 'importJobs' collection: jobId -> document
    up,           \* per upload() invocation: its local state and reactive refs
    pure,         \* the call of a pure function (normalizer, fingerprinter, parser) under study
    poll          \* a useJob instance: its refs, its interval timers, its getJob calls

vars      == <<expenses, docVersion, autoIds, now, tx, calls, createdCount,
               markDupUsed, faults, jobs, up, pure, poll>>

-----------------------------------------------------------------------------
(* Bounds of the model *)

\* calls of upsertExpense made in SpecUpsert, all callers together
MaxCalls == 2
\* largest value the clock reaches
MaxTime == 1
\* store failures (rejected reads, writes, transactions) injected per behaviour
MaxFaults == 2
\* largest number of parsed rows for which the progress formula is evaluated
MaxRows == 12
\* calls of startPolling on the useJob instance
MaxStarts == 2
\* calls of getJob made by the useJob instance
MaxFetches == 4
\* seconds the clock of the useJob instance runs
MaxPollTime == 4

-----------------------------------------------------------------------------
(* Values *)

\* JavaScript null / undefined
Null == "<null>"

Policies == {"skip", "update", "mark_duplicate"}

Callers == {"A", "B"}

\* RawTransaction rows (src/unnamed/part_005 35-52), as the PhonePe parser emits
\* them: the sample block of the end-to-end scenario; the same payment as a
\* later statement lists it, still pending; and a payment of the same amount
\* to the same vendor on the same day whose block has no "UPI transaction ID"
\* line.
RawAcme ==
    [sourceTransactionId |-> "123456789012", date |-> "10 Feb 2026",
     amount |-> "349.50", vendor |-> "ACME GROCERIES", transactionType |-> "Paid",
     category |-> Null, status |-> "completed"]

RawAcmePending == [RawAcme EXCEPT !.status = "pending"]

RawAcmeNoId == [RawAcme EXCEPT !.sourceTransactionId = Null, !.date = "10/02/2026"]

RawRows == {RawAcme, RawAcmePending, RawAcmeNoId}

Checksums == {"sha256:f1"}

-----------------------------------------------------------------------------
(* JavaScript strings: characters, case, whitespace, digits *)

\* the character at position i (1-based), "" outside the string
Char(s, i) == IF i \in 1..Len(s) THEN SubSeq(s, i, i) ELSE ""

\* the characters at positions i to j that the string has
Part(s, i, j) ==
    LET first == IF i < 1 THEN 1 ELSE i
        last == IF j > Len(s) THEN Len(s) ELSE j
    IN  IF first > last THEN "" ELSE SubSeq(s, first, last)

\* the rest of the string from position i on
Mid(s, i) == IF i > Len(s) THEN "" ELSE SubSeq(s, i, Len(s))

DigitChars == "0123456789"
LowerChars == "abcdefghijklmnopqrstuvwxyz"
UpperChars == "ABCDEFGHIJKLMNOPQRSTUVWXYZ"

\* the position of character c in alphabet, 0 when it is not in it
IndexIn(c, alphabet) ==
    IF \E i \in 1..Len(alphabet) : SubSeq(alphabet, i, i) = c
    THEN CHOOSE i \in 1..Len(alphabet) : SubSeq(alphabet, i, i) = c
    ELSE 0

IsDigit(c) == IndexIn(c, DigitChars) > 0
IsLetter(c) == IndexIn(c, LowerChars) > 0 \/ IndexIn(c, UpperChars) > 0

\* the characters \s matches and trim() removes, as far as the inputs use them
WhiteSpace == {" ", "\t", "\n"}

ToLowerChar(c) ==
    LET i == IndexIn(c, UpperChars) IN IF i > 0 THEN Char(LowerChars, i) ELSE c

ToUpperChar(c) ==
    LET i == IndexIn(c, LowerChars) IN IF i > 0 THEN Char(UpperChars, i) ELSE c

\* toLowerCase and toUpperCase, character by character; the string is taken
\* by halves
RECURSIVE ToLower(_)
ToLower(s) ==
    IF Len(s) <= 1 THEN ToLowerChar(s)
    ELSE ToLower(SubSeq(s, 1, Len(s) \div 2))
            \o ToLower(SubSeq(s, Len(s) \div 2 + 1, Len(s)))

RECURSIVE ToUpper(_)
ToUpper(s) ==
    IF Len(s) <= 1 THEN ToUpperChar(s)
    ELSE ToUpper(SubSeq(s, 1, Len(s) \div 2))
            \o ToUpper(SubSeq(s, Len(s) \div 2 + 1, Len(s)))

RECURSIVE TrimStart(_)
TrimStart(s) ==
    IF s # "" /\ Head(s) \in WhiteSpace THEN TrimStart(Tail(s)) ELSE s

RECURSIVE TrimEnd(_)
TrimEnd(s) ==
    IF s # "" /\ Char(s, Len(s)) \in WhiteSpace
    THEN TrimEnd(SubSeq(s, 1, Len(s) - 1)) ELSE s

\* String.prototype.trim
Trim(s) == TrimEnd(TrimStart(s))

\* the string without the characters of the set drop: replace(/[...]/g, '')
RECURSIVE Without(_, _)
Without(s, drop) ==
    IF Len(s) <= 1 THEN (IF s \in drop THEN "" ELSE s)
    ELSE Without(SubSeq(s, 1, Len(s) \div 2), drop)
            \o Without(SubSeq(s, Len(s) \div 2 + 1, Len(s)), drop)

\* the number of leading digits, and of leading letters, of a string
RECURSIVE LeadingDigits(_)
LeadingDigits(s) ==
    IF s # "" /\ IsDigit(Head(s)) THEN 1 + LeadingDigits(Tail(s)) ELSE 0

RECURSIVE LeadingLetters(_)
LeadingLetters(s) ==
    IF s # "" /\ IsLetter(Head(s)) THEN 1 + LeadingLetters(Tail(s)) ELSE 0

AllDigits(s) == LeadingDigits(s) = Len(s)

\* the number a string of digits denotes
RECURSIVE DigitsValue(_)
DigitsValue(s) ==
    IF s = "" THEN 0
    ELSE 10 * DigitsValue(SubSeq(s, 1, Len(s) - 1))
            + (IndexIn(Char(s, Len(s)), DigitChars) - 1)

RECURSIVE Pow10(_)
Pow10(n) == IF n = 0 THEN 1 ELSE 10 * Pow10(n - 1)

\* a padStart that pads nothing
PadStartNone(s) == s

\* padStart(2, '0')
PadStart2(s) == IF Len(s) < 2 THEN "0" \o s ELSE s

-----------------------------------------------------------------------------
(* Normalizer and fingerprinter *)

\* the monthNames table, '' standing for undefined
MonthNumber(abbr) ==
    CASE abbr = "jan" -> "01" [] abbr = "feb" -> "02" [] abbr = "mar" -> "03"
      [] abbr = "apr" -> "04" [] abbr = "may" -> "05" [] abbr = "jun" -> "06"
      [] abbr = "jul" -> "07" [] abbr = "aug" -> "08" [] abbr = "sep" -> "09"
      [] abbr = "oct" -> "10" [] abbr = "nov" -> "11" [] abbr = "dec" -> "12"
      [] OTHER -> ""

\* normalizeDate: /^\d{4}-\d{2}-\d{2}$/ returned as is;
\* /^(\d{1,2})[\s\-\/]([A-Za-z]{3,})[\s\-\/](\d{4})$/ with a known month and
\* /^(\d{1,2})[\/\-](\d{1,2})[\/\-](\d{4})$/ rewritten to YYYY-MM-DD; anything
\* else returned trimmed.
normalizeDate(rawDate) ==
    LET trimmed == Trim(rawDate)
        isIso == /\ Len(trimmed) = 10
                 /\ \A i \in {1, 2, 3, 4, 6, 7, 9, 10} : IsDigit(Char(trimmed, i))
                 /\ Char(trimmed, 5) = "-"
                 /\ Char(trimmed, 8) = "-"
        dayLen == LeadingDigits(trimmed)
        day == SubSeq(trimmed, 1, dayLen)
        sep1 == Char(trimmed, dayLen + 1)
        rest1 == Mid(trimmed, dayLen + 2)
        nameLen == LeadingLetters(rest1)
        year1 == Mid(rest1, nameLen + 2)
        longMatch == /\ dayLen \in {1, 2}
                     /\ sep1 \in WhiteSpace \cup {"-", "/"}
                     /\ nameLen >= 3
                     /\ Char(rest1, nameLen + 1) \in WhiteSpace \cup {"-", "/"}
                     /\ Len(year1) = 4
                     /\ AllDigits(year1)
        month1 == MonthNumber(ToLower(SubSeq(rest1, 1, 3)))
        monthLen == LeadingDigits(rest1)
        year2 == Mid(rest1, monthLen + 2)
        slashMatch == /\ dayLen \in {1, 2}
                      /\ sep1 \in {"/", "-"}
                      /\ monthLen \in {1, 2}
                      /\ Char(rest1, monthLen + 1) \in {"/", "-"}
                      /\ Len(year2) = 4
                      /\ AllDigits(year2)
    IN  IF isIso THEN trimmed
        ELSE IF longMatch /\ month1 # ""
             THEN year1 \o "-" \o month1 \o "-" \o PadStart2(day)
        ELSE IF slashMatch
             THEN year2 \o "-" \o PadStart2(SubSeq(rest1, 1, monthLen)) \o "-"
                     \o PadStart2(day)
        ELSE trimmed

\* the characters normalizeAmount strips: /[₹$€£,\s]/g
AmountNoise == {"₹", "$", "€", "£", ","} \cup WhiteSpace

\* parseFloat of a string without leading whitespace, on strings that hold
\* neither an exponent nor 'Infinity': an optional sign, digits, an optional
\* point and digits; what follows is ignored. The value is sign * mantissa /
\* 10^scale; nan when no digit is found.
parseFloat(s) ==
    LET signed == Char(s, 1) \in {"-", "+"}
        body == IF signed THEN Tail(s) ELSE s
        wholeLen == LeadingDigits(body)
        hasPoint == Char(body, wholeLen + 1) = "."
        fracLen == IF hasPoint THEN LeadingDigits(Mid(body, wholeLen + 2)) ELSE 0
        digits == SubSeq(body, 1, wholeLen) \o SubSeq(body, wholeLen + 2, wholeLen + 1 + fracLen)
    IN  [nan |-> wholeLen + fracLen = 0,
         negative |-> Char(s, 1) = "-",
         mantissa |-> DigitsValue(digits),
         scale |-> fracLen,
         text |-> SubSeq(body, 1, wholeLen) \o "." \o
                  SubSeq(body, wholeLen + 2, wholeLen + 1 + fracLen)]

\* Where the double nearest to a decimal with a 5 in the third decimal place,
\* times 100 in double arithmetic, falls with respect to the half cent it
\* denotes exactly: 1.005 * 100 is 100.49999999999999, 1234.005 * 100 is
\* 123400.50000000001, and 0.125 * 100 is 12.5 (IEEE 754 binary64).
HalfCentSide(text) ==
    CASE text \in {"1.005", "1.015", "1234.995"} -> "below"
      [] text \in {"1234.005", "1234.015"} -> "above"
      [] OTHER -> "on"

\* Math.round(parsed * 100), in hundredths: Math.round takes a half to the
\* next integer toward plus infinity
RoundedHundredths(parsed) ==
    LET unit == IF parsed.scale <= 2 THEN 1 ELSE Pow10(parsed.scale - 2)
        whole == IF parsed.scale <= 2
                 THEN parsed.mantissa * Pow10(2 - parsed.scale)
                 ELSE parsed.mantissa \div unit
        part == IF parsed.scale <= 2 THEN 0 ELSE parsed.mantissa % unit
        side == IF parsed.scale <= 2 \/ 2 * part # unit THEN "off"
                ELSE HalfCentSide(parsed.text)
        above == 2 * part > unit \/ side = "above"
        half == side = "on"
    IN  IF parsed.negative
        THEN (IF above THEN 0 - (whole + 1) ELSE 0 - whole)
        ELSE (IF above \/ half THEN whole + 1 ELSE whole)

\* normalizeAmount; amounts are counted in hundredths: 349.5 is 34950
normalizeAmount(rawAmount) ==
    LET cleaned == Trim(Without(rawAmount, AmountNoise))
        parsed == parseFloat(cleaned)
    IN  IF parsed.nan THEN 0 ELSE RoundedHundredths(parsed)

\* the characters /[^A-Z0-9 ]/g keeps
VendorChars == {Char(UpperChars, i) : i \in 1..26} \cup {Char(DigitChars, i) : i \in 1..10} \cup {" "}

RECURSIVE KeepOnly(_, _)
KeepOnly(s, keep) ==
    IF Len(s) <= 1 THEN (IF s \in keep THEN s ELSE "")
    ELSE KeepOnly(SubSeq(s, 1, Len(s) \div 2), keep)
            \o KeepOnly(SubSeq(s, Len(s) \div 2 + 1, Len(s)), keep)

\* replace(/\s+/g, ' ')
RECURSIVE CollapseSpaces(_)
CollapseSpaces(s) ==
    IF s = "" THEN ""
    ELSE IF Head(s) \in WhiteSpace
         THEN " " \o CollapseSpaces(TrimStart(s))
         ELSE Head(s) \o CollapseSpaces(Tail(s))

normalizeVendor(rawVendor) ==
    Trim(CollapseSpaces(KeepOnly(Trim(ToUpper(rawVendor)), VendorChars)))

\* toUpperCase().trim()
UpperTrim(s) == Trim(ToUpper(s))

normalizeRecord(raw) ==
    [date |-> normalizeDate(raw.date),
     amount |-> normalizeAmount(raw.amount),
     vendor |-> normalizeVendor(raw.vendor),
     transactionType |-> UpperTrim(IF raw.transactionType = Null THEN ""
                                   ELSE raw.transactionType)]

\* Number.prototype.toFixed(2) of an amount in hundredths
toFixed2(amount) ==
    LET mag == IF amount < 0 THEN 0 - amount ELSE amount IN
    (IF amount < 0 THEN "-" ELSE "") \o
    ToString(mag \div 100) \o "." \o
    ToString((mag % 100) \div 10) \o ToString(mag % 10)

\* the string computeFingerprint hashes
Payload(date, amount, vendor, transactionType) ==
    date \o "|" \o toFixed2(amount) \o "|" \o vendor \o "|"
        \o UpperTrim(transactionType)

\* SHA-256 is modelled as injective on the payload: the digest is the payload
\* itself, tagged.
computeFingerprint(date, amount, vendor, transactionType) ==
    "sha256(" \o Payload(date, amount, vendor, transactionType) \o ")"

\* computeFingerprint called without its fourth argument: transactionType = ''
computeFingerprintNoType(date, amount, vendor) ==
    computeFingerprint(date, amount, vendor, "")

-----------------------------------------------------------------------------
(* Statement text: lines, searches, the spans a regular expression matches *)

StartsWith(s, sub) == Len(sub) <= Len(s) /\ Part(s, 1, Len(sub)) = sub

\* the position of the first occurrence of sub in s at or after from, else 0
IndexOf(s, sub, from) ==
    LET at == {i \in from..(Len(s) - Len(sub) + 1) :
                  Part(s, i, i + Len(sub) - 1) = sub}
    IN  IF at = {} THEN 0 ELSE CHOOSE i \in at : \A j \in at : i <= j

Contains(s, sub) == IndexOf(s, sub, 1) > 0

\* split('\n')
RECURSIVE Split(_)
Split(text) ==
    LET i == IndexOf(text, "\n", 1) IN
    IF i = 0 THEN <<text>>
    ELSE <<Part(text, 1, i - 1)>> \o Split(Mid(text, i + 1))

\* split('\n').map((l) => l.trim()).filter((l) => l.length > 0)
Lines(pdfText) ==
    LET parts == Split(pdfText)
        trimmed == [i \in 1..Len(parts) |-> Trim(parts[i])]
    IN  SelectSeq(trimmed, LAMBDA l : l # "")

DigitSet == {Char(DigitChars, i) : i \in 1..10}
LetterSet == {Char(LowerChars, i) : i \in 1..26} \cup {Char(UpperChars, i) : i \in 1..26}

\* the number of characters of the set chars that follow one another from
\* position i on
RECURSIVE RunIn(_, _, _)
RunIn(s, i, chars) ==
    IF Char(s, i) \in chars THEN 1 + RunIn(s, i + 1, chars) ELSE 0

\* the leftmost position of the set at, 0 when it is empty
Leftmost(at) == IF at = {} THEN 0 ELSE CHOOSE p \in at : \A q \in at : p <= q

\* the first position at or after i that holds a character of the set, else 0
NextIn(s, i, chars) == Leftmost({p \in i..Len(s) : Char(s, p) \in chars})

\* s without the spans <<first, last>>, which are in order and apart, read
\* from position from on
RECURSIVE Cut(_, _, _)
Cut(s, spans, from) ==
    IF spans = <<>> THEN Mid(s, from)
    ELSE Part(s, from, Head(spans)[1] - 1)
            \o Cut(s, Tail(spans), Head(spans)[2] + 1)

\* the matches of /([\d,]+\.\d{2})/g from position i on
RECURSIVE AmountSpans(_, _)
AmountSpans(s, i) ==
    LET p == NextIn(s, i, DigitSet \cup {","})
        r == RunIn(s, p, DigitSet \cup {","})
    IN  IF p = 0 THEN <<>>
        ELSE IF /\ Char(s, p + r) = "."
                /\ IsDigit(Char(s, p + r + 1))
                /\ IsDigit(Char(s, p + r + 2))
             THEN <<<<p, p + r + 2>>>> \o AmountSpans(s, p + r + 3)
             ELSE AmountSpans(s, p + r)

\* the matches of /\d{min,}/g from position i on
RECURSIVE DigitRunSpans(_, _, _)
DigitRunSpans(s, i, min) ==
    LET p == NextIn(s, i, DigitSet)
        r == RunIn(s, p, DigitSet)
    IN  IF p = 0 THEN <<>>
        ELSE IF r >= min
             THEN <<<<p, p + r - 1>>>> \o DigitRunSpans(s, p + r, min)
             ELSE DigitRunSpans(s, p + r, min)

\* /credit|deposit|received|salary|inward/i
CreditKeywords == {"credit", "deposit", "received", "salary", "inward"}

IsCredit(narration) ==
    \E kw \in CreditKeywords : Contains(ToLower(narration), kw)

\* a candidate transaction as the bank parsers emit it
Candidate(sourceTransactionId, date, amount, vendor, transactionType, status) ==
    [sourceTransactionId |-> sourceTransactionId, date |-> date,
     amount |-> amount, vendor |-> vendor, transactionType |-> transactionType,
     category |-> Null, status |-> status]

-----------------------------------------------------------------------------
(* AxisBankParser *)

AxisHeaderKeywords ==
    {"tran date", "withdrawal", "deposit", "balance", "chq", "ref.no", "particulars"}

\* /^(\d{2}[-\/]\d{2}[-\/]\d{4})/: the length of the match, 0 for none
AxisDateLen(line) ==
    IF /\ \A i \in {1, 2, 4, 5, 7, 8, 9, 10} : IsDigit(Char(line, i))
       /\ Char(line, 3) \in {"-", "/"}
       /\ Char(line, 6) \in {"-", "/"}
    THEN 10 ELSE 0

\* the candidates of one line: none or one
AxisLine(line) ==
    LET dateLen == AxisDateLen(line)
        date == Part(line, 1, dateLen)
        amounts == AmountSpans(line, 1)
        amount == IF amounts = <<>> THEN "0"
                  ELSE Part(line, amounts[1][1], amounts[1][2])
        noDate == Mid(line, dateLen + 1)
        noAmounts == Cut(noDate, AmountSpans(noDate, 1), 1)
        narration == Trim(Cut(noAmounts, DigitRunSpans(noAmounts, 1, 6), 1))
        vendor == IF narration = "" THEN "UNKNOWN" ELSE narration
        transactionType == IF IsCredit(narration) THEN "CREDIT" ELSE "DEBIT"
    IN  IF \E kw \in AxisHeaderKeywords : Contains(ToLower(line), kw) THEN <<>>
        ELSE IF RunIn(line, 1, {"-", "=", "*"}) = Len(line) THEN <<>>
        ELSE IF dateLen = 0 THEN <<>>
        ELSE IF amount # "" /\ amount # "0"
             THEN <<Candidate(Null, date, amount, vendor, transactionType,
                              "completed")>>
        ELSE <<>>

\* the sequences of a sequence, one after the other
RECURSIVE Flatten(_)
Flatten(seqs) == IF seqs = <<>> THEN <<>> ELSE Head(seqs) \o Flatten(Tail(seqs))

AxisBankParser(pdfText) ==
    LET lines == Lines(pdfText) IN
    Flatten([i \in 1..Len(lines) |-> AxisLine(lines[i])])

-----------------------------------------------------------------------------
(* HDFCBankParser *)

HdfcHeaderKeywords ==
    {"date", "narration", "chq", "withdrawal", "deposit", "closing", "balance",
     "value date"}

\* /^(\d{2}\/\d{2}\/\d{2,4})/: the length of the match, 0 for none
HdfcDateLen(line) ==
    LET yearLen == RunIn(line, 7, DigitSet) IN
    IF /\ \A i \in {1, 2, 4, 5} : IsDigit(Char(line, i))
       /\ Char(line, 3) = "/"
       /\ Char(line, 6) = "/"
       /\ yearLen >= 2
    THEN 6 + (IF yearLen > 4 THEN 4 ELSE yearLen) ELSE 0

\* expandYear: a date that ends in /DD/ and two digits gets 20 or 19 before them
expandYear(date) ==
    IF Len(date) = 8
    THEN Part(date, 1, 6)
            \o (IF DigitsValue(Part(date, 7, 8)) <= 50 THEN "20" ELSE "19")
            \o Part(date, 7, 8)
    ELSE date

\* /UPI[\/\-]([^\/]+)\/([^\/]+)\/?(.*)?/i matched at position p: 'upi', a
\* slash or dash, characters other than a slash, a slash, characters other
\* than a slash
UpiVendorLen(s, p) == IndexOf(s, "/", p + 4) - (p + 4)

UpiMatchesAt(s, p) ==
    /\ ToLower(Part(s, p, p + 2)) = "upi"
    /\ Char(s, p + 3) \in {"/", "-"}
    /\ UpiVendorLen(s, p) >= 1
    /\ Char(s, p + 4 + UpiVendorLen(s, p) + 1) \notin {"", "/"}

\* the match: <<>> for none, else <<[vendor, utr]>>
UpiMatch(s) ==
    LET at == {p \in 1..(Len(s) - 2) : UpiMatchesAt(s, p)} IN
    IF at = {} THEN <<>>
    ELSE LET p == CHOOSE q \in at : \A r \in at : q <= r
             g1 == p + 4
             g2 == g1 + UpiVendorLen(s, p) + 1
             next == IndexOf(s, "/", g2)
         IN  <<[vendor |-> Part(s, g1, g2 - 2),
                utr |-> IF next = 0 THEN Mid(s, g2) ELSE Part(s, g2, next - 1)]>>

HdfcLine(line) ==
    LET dateLen == HdfcDateLen(line)
        date == expandYear(Part(line, 1, dateLen))
        amounts == AmountSpans(line, 1)
        amount == IF amounts = <<>> THEN "0"
                  ELSE Part(line, amounts[1][1], amounts[1][2])
        noDate == Mid(line, dateLen + 1)
        noAmounts == Cut(noDate, AmountSpans(noDate, 1), 1)
        narrationRaw == Trim(Cut(noAmounts, DigitRunSpans(noAmounts, 1, 6), 1))
        upiMatch == UpiMatch(narrationRaw)
        vendor == IF upiMatch # <<>> /\ Trim(upiMatch[1].vendor) # ""
                  THEN Trim(upiMatch[1].vendor) ELSE narrationRaw
        sourceTransactionId == IF upiMatch # <<>> THEN Trim(upiMatch[1].utr)
                               ELSE Null
        transactionType == IF IsCredit(narrationRaw) THEN "CREDIT" ELSE "DEBIT"
    IN  IF \E kw \in HdfcHeaderKeywords : StartsWith(ToLower(line), kw) THEN <<>>
        ELSE IF RunIn(line, 1, {"-", "=", "*"} \cup WhiteSpace) = Len(line) THEN <<>>
        ELSE IF dateLen = 0 THEN <<>>
        ELSE IF amount # "" /\ amount # "0" /\ vendor # ""
             THEN <<Candidate(sourceTransactionId, date, amount, vendor,
                              transactionType, "completed")>>
        ELSE <<>>

HDFCBankParser(pdfText) ==
    LET lines == Lines(pdfText) IN
    Flatten([i \in 1..Len(lines) |-> HdfcLine(lines[i])])

-----------------------------------------------------------------------------
(* PayZapParser *)

\* \d{1,2} at position p: the digits it takes
DayLenAt(s, p) ==
    IF ~IsDigit(Char(s, p)) THEN 0 ELSE IF IsDigit(Char(s, p + 1)) THEN 2 ELSE 1

\* /(\d{1,2}[\s\-][A-Za-z]{3,}[\s\-]\d{4})/ at position p: the length of the
\* match, 0 for none
PayZapDateLenAt(s, p) ==
    LET d == DayLenAt(s, p)
        n == RunIn(s, p + d + 1, LetterSet)
        y == p + d + 1 + n + 1
    IN  IF /\ d > 0
           /\ Char(s, p + d) \in WhiteSpace \cup {"-"}
           /\ n >= 3
           /\ Char(s, y - 1) \in WhiteSpace \cup {"-"}
           /\ \A i \in y..(y + 3) : IsDigit(Char(s, i))
        THEN d + n + 6 ELSE 0

\* the first match of the date pattern: <<>> or <<first, last>>
PayZapDateSpan(s) ==
    LET p == Leftmost({q \in 1..Len(s) : PayZapDateLenAt(s, q) > 0}) IN
    IF p = 0 THEN <<>> ELSE <<p, p + PayZapDateLenAt(s, p) - 1>>

\* ([\d,]+(?:\.\d{1,2})?) at position p: the length of the match, 0 for none
FigureLenAt(s, p) ==
    LET r == RunIn(s, p, DigitSet \cup {","})
        f == IF Char(s, p + r) = "." /\ IsDigit(Char(s, p + r + 1))
             THEN (IF IsDigit(Char(s, p + r + 2)) THEN 3 ELSE 2)
             ELSE 0
    IN  IF r = 0 THEN 0 ELSE r + f

\* (?:INR|₹)\s*([\d,]+(?:\.\d{1,2})?) at position p, the marks being the
\* currency marks the parser accepts: <<>> for no match, else <<first, last,
\* first of the figure>>
AmountAt(s, p, marks) ==
    LET m == IF "INR" \in marks /\ ToLower(Part(s, p, p + 2)) = "inr" THEN 3
             ELSE IF Char(s, p) = "₹" THEN 1 ELSE 0
        w == RunIn(s, p + m, WhiteSpace)
        n == FigureLenAt(s, p + m + w)
    IN  IF m > 0 /\ n > 0 THEN <<p, p + m + w + n - 1, p + m + w>> ELSE <<>>

\* the first match of the amount pattern in the line
AmountMatch(s, marks) ==
    LET p == Leftmost({q \in 1..Len(s) : AmountAt(s, q, marks) # <<>>}) IN
    IF p = 0 THEN <<>> ELSE AmountAt(s, p, marks)

PayZapMarks == {"INR", "₹"}

WordChars == LetterSet \cup DigitSet \cup {"_"}

\* /\b(Dr|Cr)\b/i: the position of the first match, 0 for none
DrCrAt(s) ==
    Leftmost({p \in 1..Len(s) :
                /\ ToLower(Part(s, p, p + 1)) \in {"dr", "cr"}
                /\ Char(s, p - 1) \notin WordChars
                /\ Char(s, p + 2) \notin WordChars})

\* the text without the span, if there is one
CutSpan(s, span) == IF span = <<>> THEN s ELSE Cut(s, <<span>>, 1)

PayZapHeaderKeywords ==
    {"date", "description", "amount", "transaction", "type", "balance"}

\* the first and last position of a match of the amount pattern, if any
MatchSpan(match) == IF match = <<>> THEN <<>> ELSE <<match[1], match[2]>>

\* line.replace(amountPattern, ''): the first amount is removed
WithoutAmount(s) == CutSpan(s, MatchSpan(AmountMatch(s, PayZapMarks)))

\* the text without the two letters at the mark, if there is a mark
CutMark(s, mark) == CutSpan(s, IF mark = 0 THEN <<>> ELSE <<mark, mark + 1>>)

\* .replace(/\b(Dr|Cr)\b/i, ''): the first Dr or Cr is removed
WithoutDrCr(s) == CutMark(s, DrCrAt(s))

\* .replace(/\d{8,}/g, ''): every run of eight digits or more is removed
WithoutLongDigits(s) == Cut(s, DigitRunSpans(s, 1, 8), 1)

\* vendor.trim() || 'UNKNOWN'
OrUnknown(vendor) == IF vendor = "" THEN "UNKNOWN" ELSE vendor

\* the vendor of a line whose date is at dateSpan
PayZapVendor(line, dateSpan) ==
    OrUnknown(Trim(WithoutLongDigits(WithoutDrCr(WithoutAmount(
        CutSpan(line, dateSpan))))))

\* amountMatch ? amountMatch[1] : '0'
MatchedAmount(s, match) ==
    IF match = <<>> THEN "0" ELSE Part(s, match[3], match[2])

\* the amount text of the line, or of the line below it when the line has no
\* amount
PayZapAmountText(lines, i) ==
    IF AmountMatch(lines[i], PayZapMarks) = <<>> /\ i < Len(lines)
    THEN MatchedAmount(lines[i + 1], AmountMatch(lines[i + 1], PayZapMarks))
    ELSE MatchedAmount(lines[i], AmountMatch(lines[i], PayZapMarks))

\* drCrMatch && drCrMatch[1].toUpperCase() === 'CR' ? 'CREDIT' : 'DEBIT'
DrCrType(line, typeAt) ==
    IF typeAt > 0 /\ ToUpper(Part(line, typeAt, typeAt + 1)) = "CR"
    THEN "CREDIT" ELSE "DEBIT"

\* a push that does not look at the amount
PayZapEmitAlways(date, amount, vendor, transactionType) ==
    <<Candidate(Null, date, amount, vendor, transactionType, "completed")>>

\* if (date && amount && amount !== '0') transactions.push(...)
PayZapEmit(date, amount, vendor, transactionType) ==
    IF amount # "" /\ amount # "0"
    THEN <<Candidate(Null, date, amount, vendor, transactionType, "completed")>>
    ELSE <<>>

\* the candidates of a line whose first date is at dateSpan
PayZapRow(lines, i, dateSpan) ==
    IF dateSpan = <<>> THEN <<>>
    ELSE PayZapEmit(Part(lines[i], dateSpan[1], dateSpan[2]),
                    PayZapAmountText(lines, i),
                    PayZapVendor(lines[i], dateSpan),
                    DrCrType(lines[i], DrCrAt(lines[i])))

\* the candidates of the i-th line: none or one
PayZapLine(lines, i) ==
    IF \E kw \in PayZapHeaderKeywords : StartsWith(ToLower(lines[i]), kw)
    THEN <<>>
    ELSE PayZapRow(lines, i, PayZapDateSpan(lines[i]))

PayZapParser(pdfText) ==
    LET lines == Lines(pdfText) IN
    Flatten([i \in 1..Len(lines) |-> PayZapLine(lines, i)])

-----------------------------------------------------------------------------
(* PhonePeParser *)

\* /(\d{1,2}\s+[A-Za-z]{3,}\s+\d{4})/ at position p: the length of the
\* match, 0 for none
PhonePeDateLenAt(s, p) ==
    LET d == DayLenAt(s, p)
        w1 == RunIn(s, p + d, WhiteSpace)
        n == RunIn(s, p + d + w1, LetterSet)
        w2 == RunIn(s, p + d + w1 + n, WhiteSpace)
        y == p + d + w1 + n + w2
    IN  IF /\ d > 0
           /\ w1 > 0
           /\ n >= 3
           /\ w2 > 0
           /\ \A i \in y..(y + 3) : IsDigit(Char(s, i))
        THEN d + w1 + n + w2 + 4 ELSE 0

\* the date the pattern finds in the line, '' for none
PhonePeDate(s) ==
    LET p == Leftmost({q \in 1..Len(s) : PhonePeDateLenAt(s, q) > 0}) IN
    IF p = 0 THEN "" ELSE Part(s, p, p + PhonePeDateLenAt(s, p) - 1)

PhonePeMarks == {"₹"}

StatusWords == {"completed", "failed", "pending", "reversed"}

\* /(?:Status\s*[:\-]?\s*)?(Completed|Failed|Pending|Reversed)/i: the word
\* as written, '' for none
StatusIn(s) ==
    LET at(w) == IndexOf(ToLower(s), w, 1)
        p == Leftmost({at(w) : w \in StatusWords} \ {0})
    IN  IF p = 0 THEN ""
        ELSE LET w == CHOOSE v \in StatusWords : at(v) = p IN
             Part(s, p, p + Len(w) - 1)

\* /UPI\s+transaction\s+ID\s*[:\-]?\s*([A-Za-z0-9]+)/i at position p: the
\* identifier, '' for none
TxnIdAt(s, p) ==
    LET w1 == RunIn(s, p + 3, WhiteSpace)
        t == p + 3 + w1
        w2 == RunIn(s, t + 11, WhiteSpace)
        d == t + 11 + w2
        w3 == RunIn(s, d + 2, WhiteSpace)
        c == IF Char(s, d + 2 + w3) \in {":", "-"} THEN 1 ELSE 0
        w4 == RunIn(s, d + 2 + w3 + c, WhiteSpace)
        g == d + 2 + w3 + c + w4
        n == RunIn(s, g, LetterSet \cup DigitSet)
    IN  IF /\ ToLower(Part(s, p, p + 2)) = "upi"
           /\ w1 > 0
           /\ ToLower(Part(s, t, t + 10)) = "transaction"
           /\ w2 > 0
           /\ ToLower(Part(s, d, d + 1)) = "id"
           /\ n > 0
        THEN Part(s, g, g + n - 1) ELSE ""

TxnIdIn(s) ==
    LET p == Leftmost({q \in 1..Len(s) : TxnIdAt(s, q) # ""}) IN
    IF p = 0 THEN "" ELSE TxnIdAt(s, p)

TypeWords == {"paid", "received", "refund", "sent", "transferred"}

\* /^(Paid|Received|Refund|Sent|Transferred)/i: the word as written, '' for none
TypeIn(s) ==
    IF \E w \in TypeWords : StartsWith(ToLower(s), w)
    THEN Part(s, 1, Len(CHOOSE w \in TypeWords : StartsWith(ToLower(s), w)))
    ELSE ""

mapStatus(raw) ==
    IF ToLower(raw) \in StatusWords THEN ToLower(raw) ELSE "completed"

\* the last of the values found in the lines scanned, else the value given
LastFound(found, none) ==
    LET at == {k \in 1..Len(found) : found[k] # ""} IN
    IF at = {} THEN none ELSE found[CHOOSE k \in at : \A j \in at : j <= k]

\* the candidates of the block anchored at the i-th line: none or one
PhonePeLine(lines, i) ==
    LET lowest == IF i - 5 < 1 THEN 1 ELSE i - 5
        dated == {b \in lowest..(i - 1) : PhonePeDate(lines[b]) # ""}
        back == IF dated = {} THEN 0 ELSE CHOOSE b \in dated : \A c \in dated : c <= b
        date == IF back = 0 THEN "" ELSE PhonePeDate(lines[back])
        vendor == IF back > 1 THEN lines[back - 1] ELSE ""
        amountMatch == AmountMatch(lines[i], PhonePeMarks)
        amount == Part(lines[i], amountMatch[3], amountMatch[2])
        last == IF i + 4 > Len(lines) THEN Len(lines) ELSE i + 4
        status == LastFound([k \in 1..(last - i) |-> StatusIn(lines[i + k])],
                            "Completed")
        txnId == LastFound([k \in 1..(last - i) |-> TxnIdIn(lines[i + k])], "")
        transactionType ==
            LastFound([k \in 1..(last - i) |-> TypeIn(lines[i + k])], "")
    IN  IF AmountMatch(lines[i], PhonePeMarks) = <<>> THEN <<>>
        ELSE IF vendor # "" /\ date # ""
             THEN <<Candidate(IF txnId = "" THEN Null ELSE txnId, date, amount,
                              vendor, transactionType, mapStatus(status))>>
        ELSE <<>>

PhonePeParser(pdfText) ==
    LET lines == Lines(pdfText) IN
    Flatten([i \in 1..Len(lines) |-> PhonePeLine(lines, i)])

-----------------------------------------------------------------------------
(* upload(), step 6: the canonical expense built from one row *)

NullOr(v, dflt) == IF v = Null THEN dflt ELSE v

BuildExpense(raw, source, checksum, t) ==
    LET normalized == normalizeRecord(raw)
        fingerprint == computeFingerprint(normalized.date, normalized.amount,
                                          normalized.vendor, normalized.transactionType)
        docId == NullOr(raw.sourceTransactionId, fingerprint)
    IN  [id |-> docId,
         fingerprint |-> fingerprint,
         source |-> source,
         source_transaction_id |-> raw.sourceTransactionId,
         date |-> normalized.date,
         amount |-> normalized.amount,
         currency |-> "INR",
         vendor |-> normalized.vendor,
         category |-> raw.category,
         status |-> NullOr(raw.status, "completed"),
         raw_text |-> raw,
         source_file_checksum |-> checksum,
         created_at |-> t,
         updated_at |-> t]

-----------------------------------------------------------------------------
(* The document store *)

Exists(k) == k \in DOMAIN expenses

VersionOf(k) == IF k \in DOMAIN docVersion THEN docVersion[k] ELSE 0

\* doc(collection(db, 'expenses')): a new auto-generated id
AutoId(n) == "auto-" \o ToString(n)

\* setDoc / tx.set without merge: the document becomes exactly `data`
SetDoc(coll, k, data) ==
    [x \in DOMAIN coll \cup {k} |-> IF x = k THEN data ELSE coll[x]]

\* field-wise merge: the fields of `data` replace, the others stay
MergeFields(old, data) ==
    [f \in DOMAIN old \cup DOMAIN data |-> IF f \in DOMAIN data THEN data[f] ELSE old[f]]

IsDuplicateMarked(d) == "_isDuplicate" \in DOMAIN d /\ d["_isDuplicate"] = TRUE

-----------------------------------------------------------------------------
(* upsertExpense *)

\* the document key: source transaction id when present, else the fingerprint
DocKeyFingerprintOnly(expense) == expense.fingerprint

DocKey(expense) ==
    IF expense.source_transaction_id # Null
    THEN expense.source_transaction_id
    ELSE expense.fingerprint

\* The branches of the transaction function: the write each buffers and the
\* result it returns. `docId` is the key of docRef, `dupId` the auto id of
\* dupRef, `t` the clock read by new Date().

\* no document at docRef: tx.set(docRef, {...expense, id: docId})
OnAbsent(expense, docId) ==
    [write |-> [op |-> "set", key |-> docId, data |-> [expense EXCEPT !.id = docId]],
     result |-> [action |-> "created", id |-> docId]]

\* policy 'update': tx.update(docRef, {...expense, updated_at})
OnUpdateKeepsTimestamp(expense, docId, t) ==
    [write |-> [op |-> "update", key |-> docId, data |-> expense],
     result |-> [action |-> "updated", id |-> docId]]

OnUpdateInsertsNew(expense, docId, t) ==
    [write |-> [op |-> "set", key |-> docId \o "-v2",
                data |-> [expense EXCEPT !.updated_at = t]],
     result |-> [action |-> "updated", id |-> docId]]

OnUpdate(expense, docId, t) ==
    [write |-> [op |-> "update", key |-> docId,
                data |-> [expense EXCEPT !.updated_at = t]],
     result |-> [action |-> "updated", id |-> docId]]

\* policy 'mark_duplicate': tx.set(dupRef, {...expense, _duplicateOf, _isDuplicate,
\* updated_at})
OnMarkDuplicateAtDocRef(expense, docId, dupId, t) ==
    [write |-> [op |-> "set", key |-> docId,
                data |-> ("_duplicateOf" :> docId) @@ ("_isDuplicate" :> TRUE)
                         @@ [expense EXCEPT !.updated_at = t]],
     result |-> [action |-> "marked_duplicate", id |-> docId]]

OnMarkDuplicate(expense, docId, dupId, t) ==
    [write |-> [op |-> "set", key |-> dupId,
                data |-> ("_duplicateOf" :> docId) @@ ("_isDuplicate" :> TRUE)
                         @@ [expense EXCEPT !.updated_at = t]],
     result |-> [action |-> "marked_duplicate", id |-> dupId]]

\* policy 'skip' (the default): nothing is written; id is existing.id
OnSkipStoresCopy(expense, docId) ==
    [write |-> [op |-> "set", key |-> docId \o "-copy", data |-> expense],
     result |-> [action |-> "skipped", id |-> docId]]

OnSkipOverwrites(expense, docId) ==
    [write |-> [op |-> "set", key |-> docId, data |-> [expense EXCEPT !.id = docId]],
     result |-> [action |-> "skipped", id |-> docId]]

OnSkip(expense, docId) ==
    [write |-> [op |-> "none", key |-> docId, data |-> expense],
     result |-> [action |-> "skipped", id |-> docId]]

\* the transaction function, run on the snapshot of docRef
TxBody(expense, policy, exists, docId, dupId, t) ==
    IF exists
    THEN CASE policy = "update" -> OnUpdate(expense, docId, t)
           [] policy = "mark_duplicate" -> OnMarkDuplicate(expense, docId, dupId, t)
           [] OTHER -> OnSkip(expense, docId)
    ELSE OnAbsent(expense, docId)

\* the collection after a buffered write is applied
ApplyWrite(coll, w) ==
    CASE w.op = "set" -> SetDoc(coll, w.key, w.data)
      [] w.op = "update" -> SetDoc(coll, w.key, MergeFields(coll[w.key], w.data))
      [] OTHER -> coll

BumpVersion(ver, w) ==
    IF w.op = "none" THEN ver
    ELSE [x \in DOMAIN ver \cup {w.key} |->
            IF x = w.key THEN (IF x \in DOMAIN ver THEN ver[x] ELSE 0) + 1 ELSE ver[x]]

\* the commit precondition of an optimistic transaction: the document read by
\* tx.get has not been written since
CommitUnchecked(t) == TRUE

CommitAllowed(t) == VersionOf(t.docId) = t.readVer

IdleTx == [pc |-> "idle"]

ErrorResult == [action |-> "error", id |-> Null]

NoWrite(expense) == [op |-> "none", key |-> Null, data |-> expense]

\* the call has settled: runTransaction's promise resolved with `result`, or
\* rejected (ErrorResult); the transaction's buffers are gone
Settled(t, result) ==
    [t EXCEPT !.pc = "done", !.result = result, !.readVer = 0, !.at = 0,
              !.write = NoWrite(t.expense)]

\* upsertExpense(expense, policy) is entered: docId and docRef are computed
StartTx(expense, policy, repeat) ==
    [pc |-> "get", expense |-> expense, policy |-> policy, docId |-> DocKey(expense),
     absentAtStart |-> ~Exists(DocKey(expense)), repeat |-> repeat,
     readVer |-> 0, at |-> 0, write |-> NoWrite(expense),
     result |-> ErrorResult]

\* await tx.get(docRef), then the rest of the transaction function
TxGet(c) ==
    /\ tx[c].pc = "get"
    /\ LET t == tx[c]
           body == TxBody(t.expense, t.policy, Exists(t.docId), t.docId,
                          AutoId(autoIds + 1), now)
       IN  /\ tx' = [tx EXCEPT ![c] = [t EXCEPT !.pc = "commit",
                                                !.readVer = VersionOf(t.docId),
                                                !.at = now,
                                                !.write = body.write,
                                                !.result = body.result]]
           /\ autoIds' = IF Exists(t.docId) /\ t.policy = "mark_duplicate"
                         THEN autoIds + 1 ELSE autoIds
    /\ UNCHANGED <<poll, pure, expenses, docVersion, now, calls, createdCount, markDupUsed,
                   faults, jobs, up>>

\* the commit: applied atomically when the precondition holds, otherwise the
\* transaction function is run again
TxCommit(c) ==
    /\ tx[c].pc = "commit"
    /\ LET t == tx[c]
       IN  IF CommitAllowed(t)
           THEN /\ expenses' = ApplyWrite(expenses, t.write)
                /\ docVersion' = BumpVersion(docVersion, t.write)
                /\ tx' = [tx EXCEPT ![c] = Settled(t, t.result)]
                /\ createdCount' =
                     IF t.result.action = "created"
                     THEN [k \in DOMAIN createdCount \cup {t.result.id} |->
                             IF k = t.result.id
                             THEN (IF k \in DOMAIN createdCount THEN createdCount[k] ELSE 0) + 1
                             ELSE createdCount[k]]
                     ELSE createdCount
           ELSE /\ tx' = [tx EXCEPT ![c] = [t EXCEPT !.pc = "get"]]
                /\ UNCHANGED <<expenses, docVersion, createdCount>>
    /\ UNCHANGED <<poll, pure, autoIds, now, calls, markDupUsed, faults, jobs, up>>

\* runTransaction rejects (the store is unreachable, the write is denied, the
\* attempts are exhausted): nothing is written
TxReject(c) ==
    /\ tx[c].pc \in {"get", "commit"}
    /\ faults < MaxFaults
    /\ faults' = faults + 1
    /\ tx' = [tx EXCEPT ![c] = Settled(tx[c], ErrorResult)]
    /\ UNCHANGED <<poll, pure, expenses, docVersion, autoIds, now, calls, createdCount,
                   markDupUsed, jobs, up>>

\* new Date() moves on
Tick ==
    /\ now < MaxTime
    /\ now' = now + 1
    /\ UNCHANGED <<poll, pure, expenses, docVersion, autoIds, tx, calls, createdCount,
                   markDupUsed, faults, jobs, up>>

-----------------------------------------------------------------------------
(* SpecUpsert: callers of upsertExpense *)

\* the record of an expense apart from the two timestamps
SameRecord(e1, e2) ==
    \A f \in DOMAIN e1 \ {"created_at", "updated_at"} : e1[f] = e2[f]

\* a caller whose previous call has settled calls upsertExpense with an expense
\* built from one of the rows, under any policy
CallUpsert(c) ==
    /\ tx[c].pc \in {"idle", "done"}
    /\ calls < MaxCalls
    /\ calls' = calls + 1
    /\ \E raw \in RawRows, policy \in Policies, checksum \in Checksums :
         LET expense == BuildExpense(raw, "phonepe", checksum, now)
             repeat == /\ tx[c].pc = "done"
                       /\ tx[c].result.action # "error"
                       /\ tx[c].policy = "skip"
                       /\ SameRecord(tx[c].expense, expense)
         IN  /\ tx' = [tx EXCEPT ![c] = StartTx(expense, policy, repeat)]
             /\ markDupUsed' = (markDupUsed \/ policy = "mark_duplicate")
    /\ UNCHANGED <<poll, pure, expenses, docVersion, autoIds, now, createdCount, faults, jobs, up>>

EmptyMap == [x \in {} |-> 0]

\* no pure function is under study
NoCall == [pc |-> "none"]

\* no component uses useJob
NoPoll == [pc |-> "none"]

InitStore ==
    /\ expenses = EmptyMap
    /\ docVersion = EmptyMap
    /\ autoIds = 0
    /\ now = 0
    /\ createdCount = EmptyMap
    /\ markDupUsed = FALSE
    /\ faults = 0
    /\ jobs = EmptyMap
    /\ pure = NoCall
    /\ poll = NoPoll

InitUpsert ==
    /\ InitStore
    /\ tx = [c \in Callers |-> IdleTx]
    /\ calls = 0
    /\ up = EmptyMap

NextUpsert ==
    \/ \E c \in Callers : CallUpsert(c)
    \/ \E c \in Callers : TxGet(c)
    \/ \E c \in Callers : TxCommit(c)
    \/ \E c \in Callers : TxReject(c)
    \/ Tick

SpecUpsert == InitUpsert /\ [][NextUpsert]_vars

-----------------------------------------------------------------------------
(* Import jobs: createJob, updateJob, shortCircuitIfAlreadyProcessed *)

Uploads == {"u1", "u2"}

\* the source selections made in the model: two supported ones and one that
\* is not of the ExpenseSource enumeration
Sources == {"phonepe", "axis", "gpay"}

\* the sources getParser has a parser for
ParserSources == {"phonepe", "axis", "hdfc", "payzap"}

\* The uploaded file: a password-protected PhonePe statement of two payments.
FebStatement ==
    [name |-> "feb.pdf", checksum |-> "sha256:f1", password |-> "secret",
     format |-> "phonepe", rows |-> <<RawAcme, RawAcmeNoId>>]

Files == {FebStatement}

Passwords == {"secret", Null}

StoreError == "store unavailable"
TxError == "transaction failed"
ExtractError == "No password given"
NoRowsError == "No transactions found in the PDF. Please verify the source and file format."
UnsupportedError(source) == "Unsupported report source: " \o source

\* createJob: setDoc(doc(db, 'importJobs', job.jobId), {...job, _serverTimestamp})
createJob(coll, job, t) == SetDoc(coll, job.jobId, ("_serverTimestamp" :> t) @@ job)

\* updateJob: setDoc(ref, delta, {merge: true}); the document is created when
\* it does not exist
updateJob(coll, jobId, delta) ==
    SetDoc(coll, jobId,
           IF jobId \in DOMAIN coll THEN MergeFields(coll[jobId], delta) ELSE delta)

\* the documents the short-circuit query matches: same checksum, completed
CompletedWithMisspelt(coll, checksum) ==
    {j \in DOMAIN coll :
        /\ "source_file_checksum" \in DOMAIN coll[j]
        /\ coll[j].source_file_checksum = checksum
        /\ coll[j].status = "complete"}

CompletedWith(coll, checksum) ==
    {j \in DOMAIN coll :
        /\ "source_file_checksum" \in DOMAIN coll[j]
        /\ coll[j].source_file_checksum = checksum
        /\ coll[j].status = "completed"}

\* parser.parse(pdfText) of the parser getParser(source) returns: the rows of
\* the statement when it is read by the parser of its own format, none otherwise
ParsedRows(file, source) == IF source = file.format THEN file.rows ELSE <<>>

\* Math.round(((i + 1) / total) * 60)
RowProgressNoBase(done, total) == (2 * done * 60 + total) \div (2 * total)

RowProgress(done, total) == 30 + ((2 * done * 60 + total) \div (2 * total))

-----------------------------------------------------------------------------
(* upload() *)

IdleUpload == [pc |-> "idle"]

JobId(u) == "job-" \o u

\* upload() up to its first await: the refs are reset, currentJob is built
\* 'queued', progress is 5 and computeFileChecksum is called
StartUpload(u) ==
    /\ up[u].pc = "idle"
    /\ \E file \in Files, source \in Sources, password \in Passwords,
          duplicatePolicy \in Policies :
         up' = [up EXCEPT ![u] =
            [pc |-> "checksum", file |-> file, source |-> source,
             password |-> password, duplicatePolicy |-> duplicatePolicy,
             isLoading |-> TRUE, error |-> Null, progress |-> 5, job |-> <<>>,
             shown |-> <<0, 5>>,
             currentJob |->
                [jobId |-> JobId(u), status |-> "queued", source |-> source,
                 fileName |-> file.name, source_file_checksum |-> "",
                 created |-> 0, skipped |-> 0, updated |-> 0, errors |-> <<>>,
                 started_at |-> now, finished_at |-> Null],
             scJob |-> Null, rows |-> <<>>, i |-> 0, caught |-> Null,
             outcome |-> "pending",
             priorCompleted |->
                {j \in DOMAIN jobs : /\ jobs[j].status = "completed"
                                     /\ "source_file_checksum" \in DOMAIN jobs[j]
                                     /\ jobs[j].source_file_checksum = file.checksum},
             extractCalls |-> 0, parseCalls |-> 0, upsertCalls |-> 0,
             rowErrors |-> {}, finalUpdate |-> "none", settled |-> <<>>,
             failPersist |-> "none"]]
    /\ UNCHANGED <<poll, pure, expenses, docVersion, autoIds, now, tx, calls, createdCount,
                   markDupUsed, faults, jobs>>

\* the catch block up to its await: currentJob is marked failed, the message
\* is appended and shown, and updateJob(failed) is called
CaughtUnrecorded(s, message) ==
    [s EXCEPT !.pc = "failPersist",
              !.currentJob = [s.currentJob EXCEPT
                                !.status = "failed", !.finished_at = now],
              !.error = message,
              !.caught = message]

Caught(s, message) ==
    [s EXCEPT !.pc = "failPersist",
              !.currentJob = [s.currentJob EXCEPT
                                !.status = "failed", !.finished_at = now,
                                !.errors = Append(s.currentJob.errors, message)],
              !.error = message,
              !.caught = message]

\* progress.value = p; shown lists the values assigned during this call
SetProgress(s, p) == [s EXCEPT !.progress = p, !.shown = Append(s.shown, p)]

\* an awaited store call rejects
Fault == /\ faults < MaxFaults
         /\ faults' = faults + 1

\* await computeFileChecksum(file) resolves; the short-circuit query is sent
ChecksumDone(u) ==
    /\ up[u].pc = "checksum"
    /\ up' = [up EXCEPT ![u] =
                [up[u] EXCEPT !.pc = "query",
                              !.currentJob.source_file_checksum = up[u].file.checksum]]
    /\ UNCHANGED <<poll, pure, expenses, docVersion, autoIds, now, tx, calls, createdCount,
                   markDupUsed, faults, jobs>>

\* await shortCircuitIfAlreadyProcessed(checksum) resolves. With a match, the
\* short-circuit job is built from it and createJob is called; without, the
\* job becomes 'processing' and createJob is called.
QueryDone(u) ==
    /\ up[u].pc = "query"
    /\ LET s == up[u]
           found == CompletedWith(jobs, s.currentJob.source_file_checksum)
       IN  IF found # {}
           THEN \E j \in found :
                  up' = [up EXCEPT ![u] =
                    [s EXCEPT !.pc = "scCreate",
                              !.scJob = [f \in DOMAIN jobs[j] |->
                                  CASE f = "jobId" -> s.currentJob.jobId
                                    [] f = "started_at" -> s.currentJob.started_at
                                    [] f = "finished_at" -> now
                                    [] f = "status" -> "completed"
                                    [] f = "errors" ->
                                         <<"File already processed in job " \o jobs[j].jobId
                                           \o ". All records skipped.">>
                                    [] OTHER -> jobs[j][f]]]]
           ELSE up' = [up EXCEPT ![u] =
                    [s EXCEPT !.pc = "create", !.currentJob.status = "processing"]]
    /\ UNCHANGED <<poll, pure, expenses, docVersion, autoIds, now, tx, calls, createdCount,
                   markDupUsed, faults, jobs>>

\* await createJob(shortCircuitJob) resolves: job.value is set and upload()
\* returns the short-circuit job
ShortCircuitDone(u) ==
    /\ up[u].pc = "scCreate"
    /\ jobs' = createJob(jobs, up[u].scJob, now)
    /\ up' = [up EXCEPT ![u] =
                [up[u] EXCEPT !.pc = "done", !.job = <<up[u].scJob>>,
                              !.outcome = "resolved", !.isLoading = FALSE]]
    /\ UNCHANGED <<poll, pure, expenses, docVersion, autoIds, now, tx, calls, createdCount,
                   markDupUsed, faults>>

\* await createJob(currentJob) resolves: job.value is a copy, progress is 15
\* and text extraction starts
CreateDone(u) ==
    /\ up[u].pc = "create"
    /\ jobs' = createJob(jobs, up[u].currentJob, now)
    /\ up' = [up EXCEPT ![u] =
                [SetProgress(up[u], 15) EXCEPT
                    !.pc = "extract", !.job = <<up[u].currentJob>>,
                    !.extractCalls = up[u].extractCalls + 1]]
    /\ UNCHANGED <<poll, pure, expenses, docVersion, autoIds, now, tx, calls, createdCount,
                   markDupUsed, faults>>

\* row i of the loop up to its await: the expense is built and upsertExpense
\* is called with the selected policy
RowStarted(s, i) ==
    [s EXCEPT !.pc = "row", !.i = i, !.upsertCalls = s.upsertCalls + 1]

RowTx(s, i) ==
    StartTx(BuildExpense(s.rows[i + 1], s.source, s.currentJob.source_file_checksum, now),
            s.duplicatePolicy, FALSE)

\* await extractPdfText(file, password) resolves: progress is 30, getParser
\* throws on a source it has no parser for, otherwise the parser of the source
\* parses the text; no row aborts the job, otherwise row 1 starts
ExtractDone(u) ==
    /\ up[u].pc = "extract"
    /\ up[u].password = up[u].file.password
    /\ LET rows == ParsedRows(up[u].file, up[u].source)
           s0 == SetProgress(up[u], 30)
           s == [s0 EXCEPT !.rows = rows, !.parseCalls = up[u].parseCalls + 1]
       IN  IF up[u].source \notin ParserSources
           THEN /\ up' = [up EXCEPT ![u] = Caught(s0, UnsupportedError(up[u].source))]
                /\ UNCHANGED <<tx, markDupUsed>>
           ELSE IF Len(rows) = 0
           THEN /\ up' = [up EXCEPT ![u] = Caught(s, NoRowsError)]
                /\ UNCHANGED <<tx, markDupUsed>>
           ELSE /\ up' = [up EXCEPT ![u] = RowStarted(s, 0)]
                /\ tx' = [tx EXCEPT ![u] = RowTx(s, 0)]
                /\ markDupUsed' = (markDupUsed \/ s.duplicatePolicy = "mark_duplicate")
    /\ UNCHANGED <<poll, pure, expenses, docVersion, autoIds, now, calls, createdCount,
                   faults, jobs>>

\* await extractPdfText(file, password) rejects: the password is wrong or missing
ExtractFails(u) ==
    /\ up[u].pc = "extract"
    /\ up[u].password # up[u].file.password
    /\ up' = [up EXCEPT ![u] = Caught(up[u], ExtractError)]
    /\ UNCHANGED <<poll, pure, expenses, docVersion, autoIds, now, tx, calls, createdCount,
                   markDupUsed, faults, jobs>>

\* the catch of the row loop: 'Row <i+1>: <message>' is appended to the errors
OnRowErrorDropped(job, i, message) == job

OnRowError(job, i, message) ==
    [job EXCEPT !.errors = Append(job.errors,
                                  "Row " \o ToString(i + 1) \o ": " \o message)]

\* the counter matching the result's action is incremented; marked_duplicate
\* has none
CountResultAny(job, action) == [job EXCEPT !.created = job.created + 1]

CountResult(job, action) ==
    CASE action = "created" -> [job EXCEPT !.created = job.created + 1]
      [] action = "skipped" -> [job EXCEPT !.skipped = job.skipped + 1]
      [] action = "updated" -> [job EXCEPT !.updated = job.updated + 1]
      [] OTHER -> job

\* step 7 before its await: the local currentJob is marked completed; the job
\* ref keeps the copy taken after createJob
MarkCompletedShown(s, t) ==
    [s EXCEPT !.currentJob.status = "completed", !.currentJob.finished_at = t,
              !.job = <<[s.currentJob EXCEPT !.status = "completed",
                                             !.finished_at = t]>>]

MarkCompleted(s, t) ==
    [s EXCEPT !.currentJob.status = "completed", !.currentJob.finished_at = t]

\* a loop that does not wait for the call it made
AwaitNothing(t) == TRUE

\* await upsertExpense(expense, duplicatePolicy): the loop goes on when the
\* promise of the call has settled
AwaitUpsert(t) == t.pc = "done"

\* await upsertExpense(...) settles for row i: the matching counter is
\* incremented, or the error is appended as 'Row <i+1>: <message>'; progress
\* moves; the next row starts, or the job is marked completed and the final
\* updateJob is called
RowSettled(u) ==
    /\ up[u].pc = "row"
    /\ AwaitUpsert(tx[u])
    /\ LET s == up[u]
           r == tx[u].result
           job1 == IF r.action = "error"
                   THEN OnRowError(s.currentJob, s.i, TxError)
                   ELSE CountResult(s.currentJob, r.action)
           s1 == [SetProgress(s, RowProgress(s.i + 1, Len(s.rows))) EXCEPT
                           !.currentJob = job1,
                           !.settled = Append(s.settled, r.action),
                           !.rowErrors = IF r.action = "error"
                                         THEN s.rowErrors \cup {s.i + 1} ELSE s.rowErrors]
       IN  IF s.i + 1 < Len(s.rows)
           THEN /\ up' = [up EXCEPT ![u] = RowStarted(s1, s.i + 1)]
                /\ tx' = [tx EXCEPT ![u] = RowTx(s1, s.i + 1)]
           ELSE /\ up' = [up EXCEPT ![u] =
                        [MarkCompleted(s1, now) EXCEPT !.pc = "finalize",
                                                       !.i = s.i + 1]]
                /\ tx' = [tx EXCEPT ![u] = IdleTx]
    /\ UNCHANGED <<poll, pure, expenses, docVersion, autoIds, now, calls, createdCount,
                   markDupUsed, faults, jobs>>

\* await updateJob(jobId, {status: 'completed', ...}) resolves: progress is
\* 100, job.value is a copy and upload() returns currentJob
FinalizeDone(u) ==
    /\ up[u].pc = "finalize"
    /\ LET job == up[u].currentJob IN
       /\ jobs' = updateJob(jobs, job.jobId,
                    [status |-> "completed", created |-> job.created,
                     skipped |-> job.skipped, updated |-> job.updated,
                     errors |-> job.errors, finished_at |-> job.finished_at])
       /\ up' = [up EXCEPT ![u] =
                    [SetProgress(up[u], 100) EXCEPT !.pc = "done", !.job = <<job>>,
                                  !.outcome = "resolved", !.isLoading = FALSE,
                                  !.finalUpdate = "written"]]
    /\ UNCHANGED <<poll, pure, expenses, docVersion, autoIds, now, tx, calls, createdCount,
                   markDupUsed, faults>>

\* an awaited call of the try block rejects (computeFileChecksum, the
\* short-circuit query, createJob, the final updateJob): the catch block runs
StepFails(u) ==
    /\ up[u].pc \in {"checksum", "query", "scCreate", "create", "finalize"}
    /\ Fault
    /\ up' = [up EXCEPT ![u] =
                Caught([up[u] EXCEPT !.finalUpdate =
                           IF up[u].pc = "finalize" THEN "rejected" ELSE "none"],
                       StoreError)]
    /\ UNCHANGED <<poll, pure, expenses, docVersion, autoIds, now, tx, calls, createdCount,
                   markDupUsed, jobs>>

\* the end of the catch block: job.value is a copy of the failed job and the
\* caught error is thrown again
RethrownStale(s) ==
    [s EXCEPT !.pc = "done", !.outcome = "rejected", !.isLoading = FALSE]

Rethrown(s) ==
    [s EXCEPT !.pc = "done", !.job = <<s.currentJob>>, !.outcome = "rejected",
              !.isLoading = FALSE]

\* await updateJob(jobId, {status: 'failed', ...}) resolves
FailPersistDone(u) ==
    /\ up[u].pc = "failPersist"
    /\ LET job == up[u].currentJob IN
       jobs' = updateJob(jobs, job.jobId,
                    [status |-> "failed", errors |-> job.errors,
                     finished_at |-> job.finished_at])
    /\ up' = [up EXCEPT ![u] = Rethrown([up[u] EXCEPT !.failPersist = "written"])]
    /\ UNCHANGED <<poll, pure, expenses, docVersion, autoIds, now, tx, calls, createdCount,
                   markDupUsed, faults>>

\* await updateJob(jobId, {status: 'failed', ...}) rejects: the inner catch
\* swallows it
FailPersistFails(u) ==
    /\ up[u].pc = "failPersist"
    /\ Fault
    /\ up' = [up EXCEPT ![u] = Rethrown([up[u] EXCEPT !.failPersist = "rejected"])]
    /\ UNCHANGED <<poll, pure, expenses, docVersion, autoIds, now, tx, calls, createdCount,
                   markDupUsed, jobs>>

Init ==
    /\ InitStore
    /\ tx = [u \in Uploads |-> IdleTx]
    /\ calls = 0
    /\ up = [u \in Uploads |-> IdleUpload]

Next ==
    \/ \E u \in Uploads : StartUpload(u)
    \/ \E u \in Uploads : ChecksumDone(u)
    \/ \E u \in Uploads : QueryDone(u)
    \/ \E u \in Uploads : ShortCircuitDone(u)
    \/ \E u \in Uploads : CreateDone(u)
    \/ \E u \in Uploads : ExtractDone(u)
    \/ \E u \in Uploads : ExtractFails(u)
    \/ \E u \in Uploads : TxGet(u)
    \/ \E u \in Uploads : TxCommit(u)
    \/ \E u \in Uploads : TxReject(u)
    \/ \E u \in Uploads : RowSettled(u)
    \/ \E u \in Uploads : FinalizeDone(u)
    \/ \E u \in Uploads : StepFails(u)
    \/ \E u \in Uploads : FailPersistDone(u)
    \/ \E u \in Uploads : FailPersistFails(u)

Spec == Init /\ [][Next]_vars

-----------------------------------------------------------------------------
(* Properties of upsertExpense, checked under SpecUpsert *)

\* caller c's transaction commits in this step and its call returns a result
Commits(c) ==
    /\ tx[c].pc = "commit"
    /\ tx'[c].pc = "done"
    /\ tx'[c].result.action # "error"

ReturnedOk(c) == tx[c].pc = "done" /\ tx[c].result.action # "error"

\* two calls under 'skip' for the same key, both entered while no document was
\* at that key, both returned
RacedSkips(a, b) ==
    /\ a # b
    /\ ReturnedOk(a) /\ ReturnedOk(b)
    /\ tx[a].policy = "skip" /\ tx[b].policy = "skip"
    /\ tx[a].docId = tx[b].docId
    /\ tx[a].absentAtStart /\ tx[b].absentAtStart

\* C1: of two upsertExpense calls under 'skip' that race for the same absent
\* document key, in every interleaving exactly one returns 'created' and the
\* other 'skipped', both with the key as id; no key is ever reported 'created'
\* twice; and the document exists at that key afterwards.
C1_RaceOneCreated ==
    /\ \A k \in DOMAIN createdCount : createdCount[k] <= 1
    /\ \A a, b \in Callers :
         RacedSkips(a, b) =>
           /\ {tx[a].result.action, tx[b].result.action} = {"created", "skipped"}
           /\ tx[a].result.id = tx[a].docId
           /\ tx[b].result.id = tx[a].docId
           /\ Exists(tx[a].docId)

C1_Witness ==
    \E a, b \in Callers :
        /\ RacedSkips(a, b)
        /\ tx[a].result.action = "created"
        /\ tx[b].result.action = "skipped"

\* C3: when a caller upserts the same expense a second time in sequence, both
\* times under 'skip', the second call returns {skipped, the key}, writes
\* nothing, and the document is at its key.
C3_SecondSkipIsNoOp ==
    [][\A c \in Callers :
         (Commits(c) /\ tx[c].repeat /\ tx[c].policy = "skip") =>
           /\ tx'[c].result = [action |-> "skipped", id |-> tx[c].docId]
           /\ expenses' = expenses
           /\ Exists(tx[c].docId)]_vars

C3_Witness ==
    \E c \in Callers :
        /\ ReturnedOk(c) /\ tx[c].repeat /\ tx[c].policy = "skip"
        /\ tx[c].result.action = "skipped"
        /\ Cardinality(DOMAIN expenses) = 1

NotMarked == {k \in DOMAIN expenses : ~IsDuplicateMarked(expenses[k])}

\* C4 as claimed: while only 'skip' and 'update' have been used, no two
\* documents not marked _isDuplicate carry the same fingerprint.
C4_OnePerFingerprint ==
    ~markDupUsed =>
        \A k1, k2 \in NotMarked :
            expenses[k1].fingerprint = expenses[k2].fingerprint => k1 = k2

\* C4 as amended: while only 'skip' and 'update' have been used, no two
\* documents not marked _isDuplicate carry the same source_transaction_id, and
\* no two of those without a source_transaction_id carry the same fingerprint.
C4_OnePerKeyField ==
    ~markDupUsed =>
        \A k1, k2 \in NotMarked :
            (/\ expenses[k1].source_transaction_id = expenses[k2].source_transaction_id
             /\ \/ expenses[k1].source_transaction_id # Null
                \/ expenses[k1].fingerprint = expenses[k2].fingerprint)
            => k1 = k2

C4_Witness ==
    /\ ~markDupUsed
    /\ \E k1, k2 \in NotMarked :
        /\ k1 # k2
        /\ expenses[k1].fingerprint = expenses[k2].fingerprint
        /\ expenses[k1].source_transaction_id # Null
        /\ expenses[k2].source_transaction_id = Null

\* C5: the key is the source_transaction_id when present and the fingerprint
\* otherwise; a call that commits while no document is at that key, under any
\* policy, writes the expense there with id = key and returns {created, key}.
C5_AbsentCreatesAtKey ==
    [][\A c \in Callers :
         (Commits(c) /\ ~Exists(tx[c].docId)) =>
           LET e == tx[c].expense
               key == IF e.source_transaction_id # Null
                      THEN e.source_transaction_id ELSE e.fingerprint
           IN  /\ tx[c].docId = key
               /\ DOMAIN expenses' = DOMAIN expenses \cup {key}
               /\ \A k \in DOMAIN expenses : expenses'[k] = expenses[k]
               /\ expenses'[key] = [e EXCEPT !.id = key]
               /\ tx'[c].result = [action |-> "created", id |-> key]]_vars

\* the PhonePe sample block is stored under its UPI transaction id, and a row
\* without one under its fingerprint, by calls of all three policies
C5_Witness ==
    /\ Exists("123456789012")
    /\ expenses["123456789012"].id = "123456789012"
    /\ expenses["123456789012"].amount = 34950
    /\ expenses["123456789012"].vendor = "ACME GROCERIES"
    /\ \E c \in Callers : ReturnedOk(c) /\ tx[c].result.action = "created"
                          /\ tx[c].policy = "mark_duplicate"
                          /\ tx[c].result.id = tx[c].expense.fingerprint

\* C6: a call under 'update' that commits on an existing document leaves every
\* field of the new record in it, with updated_at the clock read when the
\* transaction function ran, returns {updated, the key}, and neither adds nor
\* changes any other document.
C6_UpdateReplacesFields ==
    [][\A c \in Callers :
         (Commits(c) /\ tx[c].policy = "update" /\ Exists(tx[c].docId)) =>
           LET key == tx[c].docId IN
           /\ DOMAIN expenses' = DOMAIN expenses
           /\ Cardinality(DOMAIN expenses') = Cardinality(DOMAIN expenses)
           /\ \A k \in DOMAIN expenses \ {key} : expenses'[k] = expenses[k]
           /\ \A f \in DOMAIN tx[c].expense \ {"updated_at"} :
                  expenses'[key][f] = tx[c].expense[f]
           /\ expenses'[key].updated_at = tx[c].at
           /\ tx[c].at >= tx[c].expense.updated_at
           /\ tx'[c].result = [action |-> "updated", id |-> key]]_vars

C6_Witness ==
    \E c \in Callers :
        /\ ReturnedOk(c) /\ tx[c].result.action = "updated"
        /\ expenses[tx[c].docId].status = "pending"
        /\ expenses[tx[c].docId].updated_at > tx[c].expense.updated_at

\* C7: a call under 'mark_duplicate' that commits on an existing document
\* writes the new record, with _duplicateOf = the existing key and
\* _isDuplicate = TRUE, at a key no document had, returns {marked_duplicate,
\* that key}, adds exactly one document and changes no other.
C7_MarkDuplicateAddsOne ==
    [][\A c \in Callers :
         (Commits(c) /\ tx[c].policy = "mark_duplicate" /\ Exists(tx[c].docId)) =>
           LET newId == tx'[c].result.id IN
           /\ tx'[c].result.action = "marked_duplicate"
           /\ newId \notin DOMAIN expenses
           /\ DOMAIN expenses' = DOMAIN expenses \cup {newId}
           /\ Cardinality(DOMAIN expenses') = Cardinality(DOMAIN expenses) + 1
           /\ \A k \in DOMAIN expenses : expenses'[k] = expenses[k]
           /\ expenses'[newId]["_duplicateOf"] = tx[c].docId
           /\ expenses'[newId]["_isDuplicate"] = TRUE
           /\ \A f \in DOMAIN tx[c].expense \ {"updated_at"} :
                  expenses'[newId][f] = tx[c].expense[f]]_vars

C7_Witness ==
    \E c \in Callers :
        /\ ReturnedOk(c) /\ tx[c].result.action = "marked_duplicate"
        /\ Exists(tx[c].result.id)
        /\ expenses[tx[c].result.id]["_duplicateOf"] = tx[c].docId
        /\ Cardinality(DOMAIN expenses) = 2

-----------------------------------------------------------------------------
(* Properties of upload(), checked under Spec *)

Range(seq) == {seq[n] : n \in 1..Len(seq)}

Started == {u \in Uploads : up[u].pc # "idle"}

Finished == {u \in Uploads : up[u].pc = "done"}

\* the document keys of the statement's rows, and the document a run writes
\* for a row
StatementDocs ==
    {[BuildExpense(FebStatement.rows[n], "phonepe", FebStatement.checksum, 0)
        EXCEPT !.id = IF FebStatement.rows[n].sourceTransactionId # Null
                      THEN FebStatement.rows[n].sourceTransactionId
                      ELSE @] : n \in 1..Len(FebStatement.rows)}

StatementKeys == {d.id : d \in StatementDocs}

\* the upload parsed the statement and every row's upsert returned
RanClean(u) ==
    /\ up[u].pc \in {"finalize", "failPersist", "done"}
    /\ up[u].upsertCalls = Len(FebStatement.rows)
    /\ up[u].rowErrors = {}

\* C2: while every upload of the statement runs under 'skip', whether one
\* after the other or both past the short-circuit check at once, the expenses
\* collection never holds a document outside the statement's keys, holds under
\* each key the document a single run writes, none was created twice, and
\* once a run got every row through it holds exactly the statement's keys.
C2_UploadsIdempotent ==
    (\A u \in Started : up[u].duplicatePolicy = "skip") =>
        /\ DOMAIN expenses \subseteq StatementKeys
        /\ \A k \in DOMAIN expenses : expenses[k] \in StatementDocs /\ expenses[k].id = k
        /\ \A k \in DOMAIN createdCount : createdCount[k] <= 1
        /\ (\E u \in Started : RanClean(u)) => DOMAIN expenses = StatementKeys

\* both uploads passed the short-circuit check, upserted every row and resolved
C2_Witness ==
    /\ \A u \in Uploads :
         /\ up[u].pc = "done" /\ up[u].outcome = "resolved"
         /\ up[u].duplicatePolicy = "skip" /\ RanClean(u)
    /\ \E u \in Uploads : up[u].currentJob.skipped = 2
    /\ DOMAIN expenses = StatementKeys
    /\ Cardinality(StatementKeys) = 2

Rank(status) ==
    CASE status = "queued" -> 0
      [] status = "processing" -> 1
      [] OTHER -> 2

\* a step of a job's status: never backward, and none out of completed or failed
Forward(a, b) ==
    /\ Rank(a) <= Rank(b)
    /\ a \in {"completed", "failed"} => b = a

\* C8: the status of an upload's job, in the job object shown through the
\* job ref and in the persisted job document, never moves backward and never
\* changes once it is completed or failed, whatever step fails.
C8_StatusForwardOnly ==
    [][\A u \in Uploads :
         /\ (up[u].pc # "idle" /\ up[u].job # <<>>) =>
               Forward(up[u].job[1].status, up'[u].job[1].status)
         /\ JobId(u) \in DOMAIN jobs =>
               Forward(jobs[JobId(u)].status, jobs'[JobId(u)].status)]_vars

\* the final updateJob rejected after createJob had succeeded: the job ref
\* showed processing and now shows failed, the document holds failed
C8_Witness ==
    \E u \in Finished :
        /\ up[u].finalUpdate = "rejected"
        /\ up[u].job[1].status = "failed"
        /\ JobId(u) \in DOMAIN jobs
        /\ jobs[JobId(u)].status = "failed"
        /\ "source_file_checksum" \in DOMAIN jobs[JobId(u)]

\* The local variable currentJob, which no caller can read between the two
\* assignments, does go from completed to failed when the final updateJob
\* rejects: this formula is violated.
CurrentJobForwardOnly ==
    [][\A u \in Uploads :
         (up[u].pc # "idle" /\ up'[u].pc # "idle") =>
             Forward(up[u].currentJob.status, up'[u].currentJob.status)]_vars

\* the upload's persisted job carries the warning that names a completed job
\* of the same checksum other than itself
ShortCircuitWarning(u) ==
    \E j \in DOMAIN jobs \ {JobId(u)} :
        /\ jobs[j].status = "completed"
        /\ jobs[j].source_file_checksum = up[u].file.checksum
        /\ jobs[JobId(u)].errors =
              <<"File already processed in job " \o j \o ". All records skipped.">>

\* this upload called neither text extraction nor a parser nor upsertExpense
NothingParsedOrWritten(u) ==
    /\ up[u].extractCalls = 0
    /\ up[u].parseCalls = 0
    /\ up[u].upsertCalls = 0

\* C9: an upload that found a completed job with its checksum when it was
\* called never calls text extraction, a parser or upsertExpense, under any
\* policy, and writes no job document but its own; once its checksum, query
\* and createJob calls have returned it has persisted its own job as
\* completed with the warning naming a prior completed job. (When one of
\* these calls rejects, the upload rejects and its job document is absent or
\* holds only the failed status, the errors and finished_at.)
C9_ShortCircuit ==
    /\ DOMAIN jobs \subseteq {JobId(v) : v \in Started}
    /\ \A u \in Started :
         up[u].priorCompleted # {} =>
            /\ NothingParsedOrWritten(u)
            /\ up[u].pc = "done" => up[u].outcome \in {"resolved", "rejected"}
            /\ (up[u].pc = "done" /\ up[u].outcome = "resolved") =>
                 /\ JobId(u) \in DOMAIN jobs
                 /\ jobs[JobId(u)].status = "completed"
                 /\ ShortCircuitWarning(u)
                 /\ up[u].job # <<>>
                 /\ up[u].job[1].jobId = JobId(u)
                 /\ up[u].job[1].status = "completed"
            /\ (up[u].pc = "done" /\ up[u].outcome = "rejected") =>
                 /\ up[u].caught = StoreError
                 /\ \/ JobId(u) \notin DOMAIN jobs
                    \/ /\ DOMAIN jobs[JobId(u)] = {"status", "errors", "finished_at"}
                       /\ jobs[JobId(u)].status = "failed"

\* a short-circuited upload under mark_duplicate resolved
C9_Witness ==
    \E u \in Finished :
        /\ up[u].priorCompleted # {}
        /\ up[u].duplicatePolicy = "mark_duplicate"
        /\ up[u].outcome = "resolved"
        /\ jobs[JobId(u)].status = "completed"
        /\ ShortCircuitWarning(u)
        /\ NothingParsedOrWritten(u)

RowErrorsListed(u) ==
    \A k \in up[u].rowErrors :
        ("Row " \o ToString(k) \o ": " \o TxError) \in Range(up[u].currentJob.errors)

AllRowsProcessed(u) ==
    /\ up[u].i = Len(up[u].rows)
    /\ up[u].upsertCalls = Len(up[u].rows)

\* C10: an upload in which the upsert of some row k threw ends with
\* 'Row k: <message>' in its errors and every row processed; the row's error
\* is not what the caller gets; the job ends completed, in memory and as
\* persisted, and the upload resolves, once the final updateJob has returned.
\* (When the final updateJob itself rejects, the upload rejects with that
\* rejection and the job ends failed, the 'Row k' entries still listed.)
C10_RowErrorDoesNotAbort ==
    \A u \in Finished :
        up[u].rowErrors # {} =>
            /\ RowErrorsListed(u)
            /\ AllRowsProcessed(u)
            /\ up[u].caught # TxError
            /\ up[u].finalUpdate \in {"written", "rejected"}
            /\ up[u].finalUpdate = "written" =>
                 /\ up[u].outcome = "resolved"
                 /\ up[u].error = Null
                 /\ up[u].currentJob.status = "completed"
                 /\ up[u].job = <<up[u].currentJob>>
                 /\ jobs[JobId(u)].status = "completed"
                 /\ jobs[JobId(u)].errors = up[u].currentJob.errors
            /\ up[u].finalUpdate = "rejected" =>
                 /\ up[u].outcome = "rejected"
                 /\ up[u].caught = StoreError
                 /\ up[u].currentJob.status = "failed"

\* row 1 threw, row 2 was created, the job completed
C10_Witness ==
    \E u \in Finished :
        /\ up[u].rowErrors = {1}
        /\ up[u].currentJob.created = 1
        /\ up[u].outcome = "resolved"
        /\ jobs[JobId(u)].status = "completed"
        /\ jobs[JobId(u)].errors = <<"Row 1: " \o TxError>>

-----------------------------------------------------------------------------
(* Job-aborting errors, progress and counters of upload(), checked under Spec *)

\* C11: an upload whose text extraction failed or whose parser returned no
\* candidate has called upsertExpense for no row and ends with its job failed
\* and the error message in the job's errors: in the local job, in the job
\* ref, and in the persisted document once the updateJob of the catch block
\* has returned. (When that updateJob rejects, the document stays as createJob
\* wrote it.)
C11_AbortedJobFailed ==
    \A u \in Started :
        up[u].caught \in {ExtractError, NoRowsError} =>
            /\ up[u].upsertCalls = 0
            /\ up[u].currentJob.status = "failed"
            /\ up[u].caught \in Range(up[u].currentJob.errors)
            /\ up[u].pc = "done" =>
                 /\ up[u].job # <<>>
                 /\ up[u].job[1].status = "failed"
                 /\ up[u].caught \in Range(up[u].job[1].errors)
                 /\ up[u].failPersist \in {"written", "rejected"}
                 /\ up[u].failPersist = "written" =>
                      /\ jobs[JobId(u)].status = "failed"
                      /\ up[u].caught \in Range(jobs[JobId(u)].errors)
                      /\ jobs[JobId(u)].source_file_checksum = up[u].file.checksum
                 /\ up[u].failPersist = "rejected" =>
                      jobs[JobId(u)].status = "processing"

\* one upload failed on the password, the other parsed no row; both jobs are
\* persisted as failed and no expense was written
C11_Witness ==
    \E u, v \in Finished :
        /\ up[u].caught = ExtractError /\ up[v].caught = NoRowsError
        /\ jobs[JobId(u)].status = "failed" /\ jobs[JobId(v)].status = "failed"
        /\ jobs[JobId(v)].errors = <<NoRowsError>>
        /\ expenses = EmptyMap

AbortingErrors ==
    {ExtractError, NoRowsError} \cup {UnsupportedError(src) : src \in Sources \ ParserSources}

\* the job was persisted in state 'processing': createJob(currentJob) returned
ReachedProcessing(u) == up[u].extractCalls = 1

\* C12: an upload whose extraction fails, whose source has no parser or whose
\* parse yields no candidate rejects with that very error; the job ref then
\* shows status failed and a non-empty errors list whenever createJob had
\* persisted the job as processing, whether or not the updateJob of the catch
\* block succeeded.
C12_AbortRejectsAndShowsFailed ==
    \A u \in Finished :
        /\ (ReachedProcessing(u) /\ up[u].password # up[u].file.password) =>
              up[u].caught = ExtractError
        /\ (ReachedProcessing(u) /\ up[u].password = up[u].file.password
              /\ up[u].source \notin ParserSources) =>
              /\ up[u].caught = UnsupportedError(up[u].source)
              /\ up[u].parseCalls = 0 /\ up[u].upsertCalls = 0
        /\ (up[u].parseCalls = 1 /\ up[u].rows = <<>>) => up[u].caught = NoRowsError
        /\ up[u].caught \in AbortingErrors =>
              /\ up[u].outcome = "rejected"
              /\ up[u].error = up[u].caught
              /\ up[u].isLoading = FALSE
              /\ ReachedProcessing(u)
              /\ up[u].job # <<>>
              /\ up[u].job[1].status = "failed"
              /\ up[u].job[1].errors = <<up[u].caught>>

\* getParser threw on 'gpay' and the updateJob of the catch block rejected:
\* the document still says processing, the job ref says failed
C12_Witness ==
    \E u \in Finished :
        /\ up[u].caught = UnsupportedError("gpay")
        /\ up[u].failPersist = "rejected"
        /\ jobs[JobId(u)].status = "processing"
        /\ up[u].job[1].status = "failed"
        /\ up[u].outcome = "rejected"

\* C13: the values assigned to progress during one upload() call, from the
\* reset to 0 on, all lie in 0..100 and never decrease, whether the upload
\* completes, short-circuits or fails; and the value set after row k of n,
\* 30 + round(60k/n), lies in 30..90 and does not decrease with k, for every n
\* up to MaxRows.
C13_ProgressMonotone ==
    /\ \A u \in Started :
         /\ up[u].progress = up[u].shown[Len(up[u].shown)]
         /\ \A k \in 1..Len(up[u].shown) : up[u].shown[k] \in 0..100
         /\ \A k \in 1..(Len(up[u].shown) - 1) : up[u].shown[k] <= up[u].shown[k + 1]
    /\ \A total \in 1..MaxRows : \A done \in 1..total :
         /\ RowProgress(done, total) \in 30..90
         /\ done > 1 => RowProgress(done - 1, total) <= RowProgress(done, total)

\* one upload completed through every progress value, the other failed at 15
C13_Witness ==
    /\ \E u \in Finished : up[u].shown = <<0, 5, 15, 30, 60, 90, 100>>
    /\ \E v \in Finished : up[v].caught = ExtractError /\ up[v].shown = <<0, 5, 15>>

Count(seq, a) == Cardinality({k \in 1..Len(seq) : seq[k] = a})

RECURSIVE SumOf(_, _)
SumOf(f, keys) ==
    IF keys = {} THEN 0
    ELSE LET k == CHOOSE x \in keys : TRUE IN f[k] + SumOf(f, keys \ {k})

\* C14 as claimed: every persisted job that is completed carries created,
\* skipped and updated counters equal to the numbers of rows of its own upload
\* whose upsert returned 'created', 'skipped' and 'updated'.
C14_CompletedCountersMatchCommits ==
    \A u \in Finished :
        (JobId(u) \in DOMAIN jobs /\ jobs[JobId(u)].status = "completed") =>
            /\ jobs[JobId(u)].created = Count(up[u].settled, "created")
            /\ jobs[JobId(u)].skipped = Count(up[u].settled, "skipped")
            /\ jobs[JobId(u)].updated = Count(up[u].settled, "updated")

\* C14 as amended: at every moment of an upload, the created, skipped and
\* updated counters of its job in memory equal the numbers of its rows whose
\* upsert has returned 'created', 'skipped' and 'updated'; rows that failed or
\* are still in flight have counted nothing; the counters of all uploads
\* never exceed the commits that created a document; when the job completes
\* after the row loop the persisted document and the job ref carry the same
\* counters; the completed job of a checksum short-circuit, which processes
\* no row, carries the counters of the earlier job it found.
C14_CountersMatchCommits ==
    /\ \A u \in Started :
         LET job == up[u].currentJob
             done == up[u].settled
         IN  /\ job.created = Count(done, "created")
             /\ job.skipped = Count(done, "skipped")
             /\ job.updated = Count(done, "updated")
             /\ Len(done) <= up[u].upsertCalls
             /\ Count(done, "error") = Cardinality(up[u].rowErrors)
             /\ up[u].finalUpdate = "written" =>
                  /\ Len(done) = Len(up[u].rows)
                  /\ jobs[JobId(u)].status = "completed"
                  /\ jobs[JobId(u)].created = job.created
                  /\ jobs[JobId(u)].skipped = job.skipped
                  /\ jobs[JobId(u)].updated = job.updated
                  /\ up[u].job = <<job>>
             /\ (up[u].pc = "done" /\ up[u].outcome = "resolved"
                   /\ up[u].finalUpdate = "none") =>
                  /\ done = <<>>
                  /\ \E j \in DOMAIN jobs \ {JobId(u)} :
                        /\ jobs[j].status = "completed"
                        /\ jobs[JobId(u)].created = jobs[j].created
                        /\ jobs[JobId(u)].skipped = jobs[j].skipped
                        /\ jobs[JobId(u)].updated = jobs[j].updated
    /\ SumOf([u \in Started |-> up[u].currentJob.created], Started)
          <= SumOf(createdCount, DOMAIN createdCount)

\* a completed job that skipped the row the other upload had created and
\* created the other row
C14_Witness ==
    \E u \in Finished :
        /\ up[u].finalUpdate = "written"
        /\ up[u].settled = <<"skipped", "created">>
        /\ jobs[JobId(u)].created = 1
        /\ jobs[JobId(u)].skipped = 1
        /\ jobs[JobId(u)].updated = 0

-----------------------------------------------------------------------------
(* Calls of the normalizers and of computeFingerprint: the arguments *)

\* the dates spelled in the calls
DateDays == {1, 28}
DateMonths == 1..12
DateYears == {2026}

MonthNames ==
    <<"January", "February", "March", "April", "May", "June", "July",
      "August", "September", "October", "November", "December">>

TwoDigits(n) == IF n < 10 THEN "0" \o ToString(n) ELSE ToString(n)

\* the canonical spelling of a date
Iso(d, m, y) == ToString(y) \o "-" \o TwoDigits(m) \o "-" \o TwoDigits(d)

DayText(d, padded) == IF padded THEN TwoDigits(d) ELSE ToString(d)

\* a month's name: its first three letters, in full, in capitals, in small
\* letters
MonthForms == {"Feb", "February", "FEBRUARY", "february"}

MonthText(m, form) ==
    CASE form = "Feb" -> SubSeq(MonthNames[m], 1, 3)
      [] form = "February" -> MonthNames[m]
      [] form = "FEBRUARY" -> ToUpper(MonthNames[m])
      [] form = "february" -> ToLower(MonthNames[m])

\* the spellings of a date with a month name, and the numeric ones
NamedSpellings(d, m, y) ==
    {DayText(d, padded) \o s1 \o MonthText(m, form) \o s2 \o ToString(y) :
        padded \in BOOLEAN, s1 \in {" ", "-", "/"}, form \in MonthForms,
        s2 \in {" ", "-", "/"}}

NumericSpellings(d, m, y) ==
    {DayText(d, pd) \o s1 \o DayText(m, pm) \o s2 \o ToString(y) :
        pd \in BOOLEAN, s1 \in {"/", "-"}, pm \in BOOLEAN, s2 \in {"/", "-"}}

DateSpellings(d, m, y) ==
    {Iso(d, m, y)} \cup NamedSpellings(d, m, y) \cup NumericSpellings(d, m, y)

\* texts of none of the three formats
OtherDateTexts ==
    {"", "   ", "10 Feb 26", "10 Fe 2026", "10  Feb 2026", "10 Foo 2026",
     "2026/02/10", "2026-2-10", "100/02/2026", "10.02.2026", "Feb 10 2026",
     "10 Feb 2026 09:30", "yesterday", "10/Feb2026", "10 Feb-20267"}

\* a text as it stands, and with whitespace around it
Surrounded(text) == {text, " " \o text \o "\t", "\n" \o text}

\* the calls of normalizeDate on the spellings of one date
DateCallsOf(d, m, y) ==
    {[pc |-> "called", fn |-> "normalizeDate", arg |-> arg, supported |-> TRUE,
      date |-> <<d, m, y>>, result |-> Null] :
        arg \in UNION {Surrounded(t) : t \in DateSpellings(d, m, y)}}

DateCalls ==
    UNION {DateCallsOf(d, m, y) :
            d \in DateDays, m \in DateMonths, y \in DateYears}
    \cup
    {[pc |-> "called", fn |-> "normalizeDate", arg |-> arg, supported |-> FALSE,
      date |-> <<>>, result |-> Null] :
        arg \in UNION {Surrounded(t) : t \in OtherDateTexts}}

\* the amounts spelled in the calls: the whole part as written and its
\* value; the fraction as written, its digits' value and their number
AmountWholes ==
    {<<"0", 0>>, <<"1", 1>>, <<"7", 7>>, <<"349", 349>>, <<"1,234", 1234>>,
     <<"1,00,000", 100000>>}

AmountFractions ==
    {<<"", 0, 0>>, <<".5", 5, 1>>, <<".50", 50, 2>>, <<".56", 56, 2>>,
     <<".125", 125, 3>>, <<".005", 5, 3>>, <<".015", 15, 3>>,
     <<".995", 995, 3>>, <<".994", 994, 3>>, <<".999", 999, 3>>}

\* the currency symbol written before the amount, by name
AmountSymbols == {"none", "rupee", "rupee, space", "dollar", "euro, space", "pound"}

SymbolText(symbol) ==
    CASE symbol = "none" -> ""
      [] symbol = "rupee" -> "₹"
      [] symbol = "rupee, space" -> "₹ "
      [] symbol = "dollar" -> "$"
      [] symbol = "euro, space" -> "€ "
      [] symbol = "pound" -> "£"

\* texts that hold no decimal number once the symbols are stripped
UnparseableAmounts == {"N/A", "", " ", "abc", "INR 349.50", ".", "-", "Rs.5"}

AmountCalls ==
    {[pc |-> "called", fn |-> "normalizeAmount", symbol |-> symbol,
      text |-> w[1] \o f[1], parseable |-> TRUE, negative |-> negative,
      whole |-> w[2], numerator |-> f[2], places |-> f[3], result |-> Null] :
        negative \in BOOLEAN, symbol \in AmountSymbols, w \in AmountWholes,
        f \in AmountFractions}
    \cup
    {[pc |-> "called", fn |-> "normalizeAmount", symbol |-> symbol,
      text |-> text, parseable |-> FALSE, negative |-> FALSE, whole |-> 0,
      numerator |-> 0, places |-> 0, result |-> Null] :
        symbol \in {"none", "rupee"}, text \in UnparseableAmounts}

\* the argument of a call of normalizeAmount: sign, symbol, digits
AmountArg(call) ==
    (IF call.negative THEN "-" ELSE "") \o SymbolText(call.symbol) \o call.text

\* the raw transactions normalized and fingerprinted in pairs
FingerprintDates == {"10 Feb 2026", "10/02/2026", "x", "x|1.00|V"}
FingerprintAmounts == {"1.00", "1", "2.00"}
FingerprintVendors == {"v.", "W"}
FingerprintTypes == {Null, "T", " t ", "2.00|W|T"}

FingerprintRaws ==
    [date : FingerprintDates, amount : FingerprintAmounts,
     vendor : FingerprintVendors, transactionType : FingerprintTypes]

FingerprintCalls ==
    {[pc |-> "called", fn |-> "computeFingerprint", raws |-> <<r1, r2>>,
      result |-> Null] : r1 \in FingerprintRaws, r2 \in FingerprintRaws}

\* normalizeRecord, then computeFingerprint with and without the type
Fingerprinted(raw) ==
    LET n == normalizeRecord(raw) IN
    [fields |-> n,
     digest |-> computeFingerprint(n.date, n.amount, n.vendor, n.transactionType),
     digestNoType |-> computeFingerprintNoType(n.date, n.amount, n.vendor)]

-----------------------------------------------------------------------------
(* Calls of the normalizers and of computeFingerprint: the specification *)

NormalizeCalls == DateCalls \cup AmountCalls \cup FingerprintCalls

InitNormalize ==
    /\ expenses = EmptyMap
    /\ docVersion = EmptyMap
    /\ autoIds = 0
    /\ now = 0
    /\ createdCount = EmptyMap
    /\ markDupUsed = FALSE
    /\ faults = 0
    /\ jobs = EmptyMap
    /\ tx = EmptyMap
    /\ calls = 0
    /\ up = EmptyMap
    /\ pure \in NormalizeCalls
    /\ poll = NoPoll

\* the call under study returns
Returns(fn, result) ==
    /\ pure.pc = "called"
    /\ pure.fn = fn
    /\ pure' = [pure EXCEPT !.pc = "returned", !.result = result]
    /\ UNCHANGED <<poll, expenses, docVersion, autoIds, now, tx, calls, createdCount,
                   markDupUsed, faults, jobs, up>>

ReturnNormalizeDate == Returns("normalizeDate", normalizeDate(pure.arg))

ReturnNormalizeAmount == Returns("normalizeAmount", normalizeAmount(AmountArg(pure)))

ReturnComputeFingerprint ==
    Returns("computeFingerprint",
            <<Fingerprinted(pure.raws[1]), Fingerprinted(pure.raws[2])>>)

NextNormalize ==
    \/ ReturnNormalizeDate
    \/ ReturnNormalizeAmount
    \/ ReturnComputeFingerprint

SpecNormalize == InitNormalize /\ [][NextNormalize]_vars

-----------------------------------------------------------------------------
(* Properties of the normalizers, checked under SpecNormalize *)

Returned(fn) == pure.pc = "returned" /\ pure.fn = fn

\* C15: whichever supported spelling of a calendar date normalizeDate is
\* given (YYYY-MM-DD; day, month name of three letters or more in any case,
\* four-digit year, separated by space, dash or slash; numeric day, month,
\* four-digit year separated by slash or dash), it returns the zero-padded
\* YYYY-MM-DD of that date; given a text of none of these forms it returns
\* the text trimmed.
C15_DateSpellingsAgree ==
    Returned("normalizeDate") =>
        IF pure.supported
        THEN pure.result = Iso(pure.date[1], pure.date[2], pure.date[3])
        ELSE pure.result = Trim(pure.arg)

\* an unpadded day with a month name in small letters has been normalized
C15_Witness ==
    /\ Returned("normalizeDate")
    /\ pure.arg = "1/september-2026"
    /\ pure.result = "2026-09-01"

\* the amount written as whole, numerator / 10^places, in hundredths, with a
\* half cent rounded away from zero
HalfAwayFromZero(negative, whole, numerator, places) ==
    LET mag == whole * 100
               + (2 * numerator * 100 + Pow10(places)) \div (2 * Pow10(places))
    IN  IF negative THEN 0 - mag ELSE mag

\* the distance, in 10^-places hundredths, between a result and the amount
\* written
OffBy(result, negative, whole, numerator, places) ==
    LET signed == IF negative THEN 0 - 1 ELSE 1
        d == (result - signed * whole * 100) * Pow10(places)
             - signed * numerator * 100
    IN  IF d < 0 THEN 0 - d ELSE d

\* normalizeAmount returns the hundredth nearest to the amount written, or one
\* of the two nearest when it is written half way between them, and 0 for a
\* text without a number
AmountIsNearestCent ==
    Returned("normalizeAmount") =>
        IF pure.parseable
        THEN 2 * OffBy(pure.result, pure.negative, pure.whole, pure.numerator,
                       pure.places) <= Pow10(pure.places)
        ELSE pure.result = 0

\* C16: normalizeAmount strips the currency symbols, commas and whitespace
\* and returns the decimal written, rounded to two places with a half cent
\* rounded away from zero, for positive and negative amounts alike; it
\* returns 0 for a text that holds no number.
C16_RoundsHalfAwayFromZero ==
    Returned("normalizeAmount") =>
        IF pure.parseable
        THEN pure.result = HalfAwayFromZero(pure.negative, pure.whole,
                                            pure.numerator, pure.places)
        ELSE pure.result = 0

\* the examples of C16: 1234.56, 100000.00, 101.00 and 0
AmountExamples ==
    /\ normalizeAmount("₹1,234.56") = 123456
    /\ normalizeAmount("1,00,000.00") = 10000000
    /\ normalizeAmount("100.999") = 10100
    /\ normalizeAmount("N/A") = 0
    /\ normalizeAmount("349.50") = 34950

\* a negative half cent has been rounded toward zero
NegativeHalfCentTowardZero ==
    /\ Returned("normalizeAmount")
    /\ AmountArg(pure) = "-0.125"
    /\ pure.result = 0 - 12

\* 1.005 has been rounded down to 1.00
BinaryHalfCentDown ==
    /\ Returned("normalizeAmount")
    /\ AmountArg(pure) = "1.005"
    /\ pure.result = 100

\* equal tuples have equal digests, and a tuple without a type has the digest
\* of the same tuple fingerprinted without the fourth argument
FingerprintDetermined ==
    Returned("computeFingerprint") =>
        /\ pure.result[1].fields = pure.result[2].fields
              => pure.result[1].digest = pure.result[2].digest
        /\ \A i \in {1, 2} :
              pure.result[i].fields.transactionType = ""
                 => pure.result[i].digest = pure.result[i].digestNoType

HasBar(s) == \E i \in 1..Len(s) : Char(s, i) = "|"

\* two tuples whose dates hold no '|' and that differ in a field have
\* different digests
FingerprintSeparatesBarFreeDates ==
    Returned("computeFingerprint") =>
        ((/\ ~HasBar(pure.result[1].fields.date)
          /\ ~HasBar(pure.result[2].fields.date)
          /\ pure.result[1].fields # pure.result[2].fields)
            => pure.result[1].digest # pure.result[2].digest)

\* C17: the digest is determined by date|amount.toFixed(2)|vendor|type: equal
\* tuples have equal digests, a tuple without a type has the digest of the
\* call without the fourth argument, and two tuples produced by
\* normalizeRecord that differ in date, amount, vendor or type never have the
\* same hashed string, hence never the same digest.
C17_DigestSeparatesTuples ==
    Returned("computeFingerprint") =>
        /\ pure.result[1].fields = pure.result[2].fields
              => pure.result[1].digest = pure.result[2].digest
        /\ \A i \in {1, 2} :
              pure.result[i].fields.transactionType = ""
                 => pure.result[i].digest = pure.result[i].digestNoType
        /\ pure.result[1].fields # pure.result[2].fields
              => pure.result[1].digest # pure.result[2].digest

\* two tuples that differ in every field have been given one digest
BarCollision ==
    /\ Returned("computeFingerprint")
    /\ pure.result[1].fields.date # pure.result[2].fields.date
    /\ pure.result[1].fields.amount # pure.result[2].fields.amount
    /\ pure.result[1].fields.vendor # pure.result[2].fields.vendor
    /\ pure.result[1].fields.transactionType # pure.result[2].fields.transactionType
    /\ pure.result[1].digest = pure.result[2].digest

-----------------------------------------------------------------------------
(* Calls of the statement parsers *)

\* Statement text is kept in 7-bit characters, '~' standing for the rupee
\* sign; the text a parser is given has the sign itself.
RECURSIVE Rupee(_)
Rupee(text) ==
    IF Len(text) <= 1 THEN (IF text = "~" THEN "₹" ELSE text)
    ELSE Rupee(SubSeq(text, 1, Len(text) \div 2))
            \o Rupee(SubSeq(text, Len(text) \div 2 + 1, Len(text)))

\* Axis Bank rows: date, reference number, narration, amount, balance
AxisDates == {"01-01-2026", "15/01/2026"}
AxisRefs == {"12345", "678901", "123456789012", "A1B2"}
AxisNarrations ==
    {"NEFT ACME VENDORS PVT LTD", "IMPS AMAZON SHOPPING", "UPI/SALARY COMPANY",
     "ATM CASH 24"}
AxisAmounts == {"1000.00", "2,499.00", "0.00"}
AxisBalance == "49000.00"
AxisHeader == "Tran Date  Chq./Ref.No.  Transaction Remarks  Withdrawal  Deposit  Balance"

AxisRow(date, ref, narration, amount) ==
    date \o " " \o ref \o " " \o narration \o " " \o amount \o " " \o AxisBalance

AxisCalls ==
    {[pc |-> "called", fn |-> "AxisBankParser.parse", kind |-> "row",
      date |-> d, ref |-> r, narration |-> n, amount |-> a,
      text |-> AxisHeader \o "\n" \o AxisRow(d, r, n, a) \o "\n-----\n",
      result |-> Null] :
        d \in AxisDates, r \in AxisRefs, n \in AxisNarrations, a \in AxisAmounts}

\* Axis Bank rows for the transaction type: narrations with each credit
\* keyword, in several cases, and narrations without one
AxisTypeNarrations ==
    {"CREDIT INTEREST", "Cash Deposit self", "Amount received from A",
     "salary JAN", "INWARD REMITTANCE", "NEFT ACME", "ATM Withdrawal",
     "Min balance charge", "CHQ 42 paid"}

AxisTypeCalls ==
    {[pc |-> "called", fn |-> "AxisBankParser.parse", kind |-> "type",
      date |-> "01-01-2026", ref |-> "678901", narration |-> n,
      amount |-> "1000.00",
      text |-> AxisHeader \o "\n" \o AxisRow("01-01-2026", "678901", n, "1000.00")
                \o "\n*****\n",
      result |-> Null] : n \in AxisTypeNarrations}

\* HDFC rows with a UPI narration: two rows of one day, vendor and amount that
\* differ in the UTR only
HdfcVendors == {"ACME GROCERIES", "Book Shop"}
HdfcUtrs == {"123456789012", "123456789013", "AXI123456789", "T1", "12345"}
HdfcRemarks == {"groceries", "Payment from 9"}
HdfcHeader == "Date  Narration  Chq./Ref.No.  Value Dt  Withdrawal Amt.  Deposit Amt.  Closing Balance"

HdfcRow(vendor, utr, remarks) ==
    "10/02/26 UPI/" \o vendor \o "/" \o utr \o "/" \o remarks \o "  349.50  1,000.00"

HdfcCalls ==
    {[pc |-> "called", fn |-> "HDFCBankParser.parse", kind |-> "row",
      vendor |-> v, utrs |-> <<u1, u2>>, remarks |-> m,
      text |-> HdfcHeader \o "\n" \o HdfcRow(v, u1, m) \o "\n" \o HdfcRow(v, u2, m),
      result |-> Null] :
        v \in HdfcVendors, u1 \in HdfcUtrs, u2 \in HdfcUtrs, m \in HdfcRemarks}

\* whole statements, by parser
StatementTexts ==
    {<<"AxisBankParser.parse", "">>,
     <<"AxisBankParser.parse", "Account Statement - Axis Bank\n\n01-01-2026 NEFT ACME\n=====\n02-01-2026 999999 10.00 5.00">>,
     <<"HDFCBankParser.parse", "">>,
     <<"HDFCBankParser.parse", "01/02/2026 POS ACME 5.00 6.00\n01/02/2026 123456 5.00\n01/02/75 NEFT Salary credit 0.00 6.00\n= = =">>,
     <<"PayZapParser.parse", "">>,
     <<"PayZapParser.parse", "Date Description Amount\n10 Feb 2026 ACME GROCERIES INR 349.50 Dr\n11-Feb-2026 Refund from shop 12345678 Cr ~ 1,200">>,
     <<"PayZapParser.parse", "12 Feb 2026 Cafe\nINR 0.00\n13 Feb 2026 Book Shop INR 0 Dr\n14 Feb 2026 Dr INR 5\n15 Feb 2026 Tea stall">>,
     <<"PhonePeParser.parse", "">>,
     <<"PhonePeParser.parse", "Transaction Statement\nACME GROCERIES\n10 Feb 2026\n~349.50\nPaid to merchant\nStatus: Completed\nUPI transaction ID: T12345">>,
     <<"PhonePeParser.parse", "Book Shop\n11  February 2026 09:30 am\n~ 0\nreceived\nPENDING\n12 Feb 2026\n~5\n~7.5">>}

TextCalls ==
    {[pc |-> "called", fn |-> t[1], kind |-> "text", text |-> t[2],
      result |-> Null] : t \in StatementTexts}

\* text without a transaction row: nothing, white space, prose, separators,
\* table headers, amounts without a date, dates without an amount
NoiseTexts ==
    {"",
     " \n\t\n  ",
     "Account statement for January\nPage 1 of 3\nThank you for banking with us",
     "-----\n=====\n*****\n- = *",
     "Tran Date  Particulars  Balance\nDate  Narration  Closing Balance\nTransaction type",
     "Total ~ 500.00\nClosing figure INR 12.5\nSum 1,000.00",
     "01-01-2026\n10/02/26\n10 Feb 2026"}

NoiseCalls ==
    {[pc |-> "called", fn |-> f, kind |-> "noise", text |-> t, result |-> Null] :
        f \in {"AxisBankParser.parse", "HDFCBankParser.parse",
                "PayZapParser.parse", "PhonePeParser.parse"},
        t \in NoiseTexts}

ParseCalls ==
    AxisCalls \cup AxisTypeCalls \cup HdfcCalls \cup TextCalls \cup NoiseCalls

InitParse ==
    /\ expenses = EmptyMap
    /\ docVersion = EmptyMap
    /\ autoIds = 0
    /\ now = 0
    /\ createdCount = EmptyMap
    /\ markDupUsed = FALSE
    /\ faults = 0
    /\ jobs = EmptyMap
    /\ tx = EmptyMap
    /\ calls = 0
    /\ up = EmptyMap
    /\ pure \in ParseCalls
    /\ poll = NoPoll

ParseAxis == Returns("AxisBankParser.parse", AxisBankParser(Rupee(pure.text)))

ParseHdfc == Returns("HDFCBankParser.parse", HDFCBankParser(Rupee(pure.text)))

ParsePayZap == Returns("PayZapParser.parse", PayZapParser(Rupee(pure.text)))

ParsePhonePe == Returns("PhonePeParser.parse", PhonePeParser(Rupee(pure.text)))

NextParse ==
    \/ ParseAxis
    \/ ParseHdfc
    \/ ParsePayZap
    \/ ParsePhonePe

SpecParse == InitParse /\ [][NextParse]_vars

-----------------------------------------------------------------------------
(* Properties of the parsers, checked under SpecParse *)

Parsers ==
    {"AxisBankParser.parse", "HDFCBankParser.parse", "PayZapParser.parse",
     "PhonePeParser.parse"}

Parsed == pure.pc = "returned" /\ pure.fn \in Parsers

\* every candidate has a vendor
CandidatesHaveVendor ==
    Parsed => \A i \in 1..Len(pure.result) : pure.result[i].vendor # ""

\* every candidate has an amount text other than '0', unless PhonePe emitted it
CandidatesHaveAmountText ==
    Parsed /\ pure.fn # "PhonePeParser.parse" =>
        \A i \in 1..Len(pure.result) : pure.result[i].amount \notin {"", "0"}

\* C18: every candidate emitted by any of the four parsers has a non-empty
\* vendor and a non-zero amount.
C18_CandidatesHaveVendorAndAmount ==
    Parsed =>
        \A i \in 1..Len(pure.result) :
            /\ pure.result[i].vendor # ""
            /\ normalizeAmount(pure.result[i].amount) # 0

\* the Axis parser has emitted a candidate whose amount is 0.00
AxisZeroAmountEmitted ==
    /\ Returned("AxisBankParser.parse")
    /\ \E i \in 1..Len(pure.result) : pure.result[i].amount = "0.00"

\* the PhonePe parser has emitted a candidate whose amount is 0
PhonePeZeroAmountEmitted ==
    /\ Returned("PhonePeParser.parse")
    /\ \E i \in 1..Len(pure.result) : pure.result[i].amount = "0"

\* an Axis Bank row has been parsed
AxisRowParsed == Returned("AxisBankParser.parse") /\ pure.kind = "row"

\* C19: an Axis Bank row made of a date, a reference number, a narration, an
\* amount and a balance parses to exactly one candidate with the leading
\* date, the first amount token, the narration alone as vendor (the date, the
\* amount tokens and the reference number removed) and transactionType
\* DEBIT. Rows whose narration holds a credit keyword are left aside.
C19_AxisRowVendorIsNarration ==
    AxisRowParsed /\ ~IsCredit(pure.narration) =>
        /\ Len(pure.result) = 1
        /\ pure.result[1].date = pure.date
        /\ pure.result[1].amount = pure.amount
        /\ pure.result[1].vendor = pure.narration
        /\ pure.result[1].transactionType = "DEBIT"

\* What the parser does with such a row: exactly one candidate with the
\* leading date and the first amount token; its vendor is the narration when
\* the reference number is a run of six or more digits and the reference
\* number followed by the narration otherwise; its transactionType is CREDIT
\* when the narration holds a credit keyword and DEBIT otherwise.
AxisRowCandidate ==
    AxisRowParsed =>
        /\ Len(pure.result) = 1
        /\ pure.result[1].date = pure.date
        /\ pure.result[1].amount = pure.amount
        /\ pure.result[1].vendor =
              IF AllDigits(pure.ref) /\ Len(pure.ref) >= 6 THEN pure.narration
              ELSE pure.ref \o " " \o pure.narration
        /\ pure.result[1].transactionType =
              IF \E kw \in CreditKeywords : Contains(ToLower(pure.narration), kw)
              THEN "CREDIT" ELSE "DEBIT"
        /\ pure.result[1].sourceTransactionId = Null
        /\ pure.result[1].status = "completed"

\* the row '01-01-2026 12345 NEFT ACME VENDORS PVT LTD 1000.00 49000.00' has
\* been parsed
AxisExampleParsed ==
    /\ AxisRowParsed
    /\ pure.date = "01-01-2026"
    /\ pure.ref = "12345"
    /\ pure.narration = "NEFT ACME VENDORS PVT LTD"
    /\ pure.amount = "1000.00"
    /\ pure.result[1].vendor = "12345 NEFT ACME VENDORS PVT LTD"
    /\ pure.result[1].transactionType = "DEBIT"

\* two HDFC rows with UPI narrations have been parsed
HdfcRowsParsed == Returned("HDFCBankParser.parse") /\ pure.kind = "row"

\* the key under which upsertExpense stores the i-th candidate
HdfcKey(i) ==
    DocKey(BuildExpense(pure.result[i], "hdfc", "sha256:f1", 0))

\* C20: for an HDFC row whose narration is UPI/<vendor>/<UTR>/<remarks> the
\* candidate has vendor <vendor> and sourceTransactionId <UTR>, also when the
\* UTR is a long all-digit number, and two rows with different UTRs are
\* stored under different document keys.
C20_UpiVendorAndUtr ==
    HdfcRowsParsed =>
        /\ Len(pure.result) = 2
        /\ \A i \in {1, 2} :
              /\ pure.result[i].vendor = pure.vendor
              /\ pure.result[i].sourceTransactionId = pure.utrs[i]
        /\ pure.utrs[1] # pure.utrs[2] => HdfcKey(1) # HdfcKey(2)

\* a UTR without a run of six digits: T1, 12345
ShortUtr(utr) == DigitRunSpans(utr, 1, 6) = <<>>

\* What the parser does: a row whose UTR holds no run of six or more digits
\* gives vendor and UTR as written; a row whose UTR is all digits, six or
\* more, gives the whole narration without the UTR as vendor and no
\* sourceTransactionId.
HdfcRowCandidates ==
    HdfcRowsParsed =>
        /\ Len(pure.result) = 2
        /\ \A i \in {1, 2} :
              IF ShortUtr(pure.utrs[i])
              THEN /\ pure.result[i].vendor = pure.vendor
                   /\ pure.result[i].sourceTransactionId = pure.utrs[i]
              ELSE IF AllDigits(pure.utrs[i])
              THEN /\ pure.result[i].vendor =
                          "UPI/" \o pure.vendor \o "//" \o pure.remarks
                   /\ pure.result[i].sourceTransactionId = Null
              ELSE /\ pure.result[i].vendor = pure.vendor
                   /\ pure.result[i].sourceTransactionId # pure.utrs[i]

\* two rows with the UTRs 123456789012 and 123456789013 have been given one
\* document key
HdfcUtrLost ==
    /\ HdfcRowsParsed
    /\ pure.utrs = <<"123456789012", "123456789013">>
    /\ pure.result[1].sourceTransactionId = Null
    /\ HdfcKey(1) = HdfcKey(2)

\* C21: each of the four parsers returns an empty sequence when given empty
\* text or text that contains no recognizable transaction row.
C21_NoiseGivesNoCandidates ==
    Parsed /\ pure.kind = "noise" => pure.result = <<>>

\* PayZapp has returned from a text of dates that have no amount
C21_Witness ==
    /\ Returned("PayZapParser.parse")
    /\ pure.kind = "noise"
    /\ Contains(pure.text, "10 Feb 2026")
    /\ pure.result = <<>>

-----------------------------------------------------------------------------
(* Order of the rows, counters and documents of upload(), checked under Spec *)

\* the upsertExpense call of the upload has not settled
InFlight(u) == tx[u].pc \in {"get", "commit"}

\* C22: within one upload the rows are processed one at a time in candidate
\* order: the call for row i+1 is made only after the call for row i has
\* settled, the job is marked completed only after the last row has settled,
\* and no call is in flight when upload() has resolved or rejected.
C22_RowsOneAtATime ==
    [][\A u \in Uploads :
        /\ up[u].pc = "row" =>
              /\ Len(up[u].settled) = up[u].i
              /\ up[u].upsertCalls = up[u].i + 1
              /\ tx[u].pc # "idle"
              /\ SameRecord(tx[u].expense,
                            BuildExpense(up[u].rows[up[u].i + 1], up[u].source,
                                         up[u].file.checksum, 0))
        /\ up[u].pc = "row" /\ up'[u] # up[u] =>
              /\ ~InFlight(u)
              /\ up'[u].i = up[u].i + 1
              /\ up'[u].pc = (IF up[u].i + 1 < Len(up[u].rows)
                              THEN "row" ELSE "finalize")
        /\ up[u].pc # "idle" /\ up[u].currentJob.status = "completed" =>
              /\ ~InFlight(u)
              /\ Len(up[u].settled) = Len(up[u].rows)
        /\ up[u].pc = "done" => ~InFlight(u)
        /\ up[u].pc # "row" /\ up'[u].pc = "row" => up'[u].i = 0]_vars

\* the call for the second row is in flight, the first row having failed
C22_Witness ==
    \E u \in Uploads :
        /\ up[u].pc = "row"
        /\ up[u].i = 1
        /\ up[u].settled = <<"error">>
        /\ tx[u].pc = "commit"

\* the number of 'Row k: ...' entries of an error list
RowEntries(errors) ==
    Cardinality({k \in 1..Len(errors) : StartsWith(errors[k], "Row ")})

\* the rows a job record accounts for
Accounted(job) == job.created + job.skipped + job.updated + RowEntries(job.errors)

\* the upload went through its row loop and resolved with a completed job
CompletedByRows(u) ==
    /\ up[u].pc = "done"
    /\ up[u].outcome = "resolved"
    /\ up[u].finalUpdate = "written"

\* C23: for every job that ends completed after processing n parsed
\* candidates, created + skipped + updated + the number of 'Row k:' entries in
\* errors is n, under each of the three duplicate policies.
C23_CountersAccountForRows ==
    \A u \in Uploads :
        CompletedByRows(u) =>
            /\ Accounted(up[u].job[1]) = Len(up[u].rows)
            /\ Accounted(jobs[JobId(u)]) = Len(up[u].rows)

\* the same under the policies skip and update
CountersAccountForRowsSkipUpdate ==
    \A u \in Uploads :
        CompletedByRows(u) /\ up[u].duplicatePolicy \in {"skip", "update"} =>
            /\ Accounted(up[u].job[1]) = Len(up[u].rows)
            /\ Accounted(jobs[JobId(u)]) = Len(up[u].rows)

\* under mark_duplicate the rows that are not accounted for are those whose
\* upsert returned 'marked_duplicate'
MarkedDuplicateUncounted ==
    \A u \in Uploads :
        CompletedByRows(u) =>
            Accounted(jobs[JobId(u)]) + Count(up[u].settled, "marked_duplicate")
                = Len(up[u].rows)

\* a completed job of two rows that accounts for none of them
TwoRowsUnaccounted ==
    \E u \in Uploads :
        /\ CompletedByRows(u)
        /\ Len(up[u].rows) = 2
        /\ Accounted(jobs[JobId(u)]) = 0
        /\ jobs[JobId(u)].errors = <<>>

\* the job document carries the file name, source selection and file checksum
\* of upload u
RecordsUpload(u, doc) ==
    /\ {"fileName", "source", "source_file_checksum"} \subseteq DOMAIN doc
    /\ doc.fileName = up[u].file.name
    /\ doc.source = up[u].source
    /\ doc.source_file_checksum = up[u].file.checksum

\* the job document of upload u was written by createJob
JobCreated(u) ==
    /\ JobId(u) \in DOMAIN jobs
    /\ "jobId" \in DOMAIN jobs[JobId(u)]

\* C24: every job document persisted for an upload records that upload's own
\* fileName, source and file checksum, the job synthesized by the checksum
\* short-circuit included.
C24_JobRecordsItsUpload ==
    \A u \in Started : JobCreated(u) => RecordsUpload(u, jobs[JobId(u)])

\* the same for the jobs created in step 3, before text extraction
ProcessedJobRecordsItsUpload ==
    \A u \in Started :
        JobCreated(u) /\ up[u].extractCalls > 0 => RecordsUpload(u, jobs[JobId(u)])

\* a short-circuit job carries the checksum of its upload and the file name
\* and source of the job it copies
ShortCircuitJobCopiesPrior ==
    \A u \in Started :
        JobCreated(u) /\ up[u].extractCalls = 0 =>
            /\ jobs[JobId(u)].source_file_checksum = up[u].file.checksum
            /\ \E v \in Started \ {u} :
                  /\ JobCreated(v)
                  /\ jobs[JobId(u)].source = jobs[JobId(v)].source
                  /\ jobs[JobId(u)].fileName = jobs[JobId(v)].fileName

\* an upload with source axis has persisted a completed job with source phonepe
ShortCircuitJobOfOtherSource ==
    \E u \in Finished :
        /\ up[u].source = "axis"
        /\ up[u].outcome = "resolved"
        /\ JobCreated(u)
        /\ jobs[JobId(u)].status = "completed"
        /\ jobs[JobId(u)].source = "phonepe"

-----------------------------------------------------------------------------
(* The id and created_at fields of the expense documents, checked under
   SpecUpsert *)

\* C25: after any sequence of upserts under any mix of policies, every
\* document of the expenses collection has an id field equal to its own
\* document key, the documents written by the mark_duplicate branch included.
C25_IdIsDocumentKey ==
    \A k \in DOMAIN expenses : expenses[k].id = k

\* the same for the documents that are not marked as duplicates
UnmarkedIdIsDocumentKey ==
    \A k \in DOMAIN expenses :
        ~IsDuplicateMarked(expenses[k]) => expenses[k].id = k

\* a document marked as duplicate has the id of the document it duplicates,
\* which is another document
MarkedIdIsOriginalKey ==
    \A k \in DOMAIN expenses :
        IsDuplicateMarked(expenses[k]) =>
            /\ expenses[k].id = expenses[k]["_duplicateOf"]
            /\ expenses[k].id # k
            /\ expenses[k].id \in DOMAIN expenses

\* two documents of the collection have the same id field
TwoDocumentsOneId ==
    \E k1, k2 \in DOMAIN expenses :
        k1 # k2 /\ expenses[k1].id = expenses[k2].id

\* C26: once an expense document has been created its created_at value never
\* changes under any later upsert with any policy.
C26_CreatedAtNeverChanges ==
    [][\A k \in DOMAIN expenses :
          /\ k \in DOMAIN expenses'
          /\ expenses'[k].created_at = expenses[k].created_at]_vars

\* a document changes only in the commit of an 'update' call on its key, and
\* then every field of the call's expense, created_at included, replaces the
\* stored one
OnlyUpdateChangesDocuments ==
    [][\A k \in DOMAIN expenses :
          /\ k \in DOMAIN expenses'
          /\ expenses'[k] # expenses[k] =>
                \E c \in Callers :
                    /\ tx[c].pc = "commit"
                    /\ tx[c].policy = "update"
                    /\ tx[c].docId = k
                    /\ expenses'[k].created_at = tx[c].expense.created_at
                    /\ expenses'[k].updated_at = tx[c].at]_vars

\* a document created at time 0 has the created_at of the later call that
\* updated it
CreatedAtOverwritten ==
    \E a, b \in Callers :
        /\ tx[a].pc = "done" /\ tx[a].result.action = "created"
        /\ tx[b].pc = "done" /\ tx[b].result.action = "updated"
        /\ tx[a].docId = tx[b].docId
        /\ tx[a].expense.created_at = 0
        /\ expenses[tx[a].docId].created_at = 1

-----------------------------------------------------------------------------
(* The documents of the importJobs collection, checked under Spec *)

\* the attributes of ImportJob
ImportJobFields ==
    {"jobId", "status", "source", "fileName", "source_file_checksum", "created",
     "skipped", "updated", "errors", "started_at", "finished_at"}

\* C27: every document of the importJobs collection was first written by
\* createJob and carries all ImportJob attributes; an upload that fails before
\* its job is created leaves no job document behind.
C27_JobDocumentsAreWhole ==
    \A j \in DOMAIN jobs : ImportJobFields \subseteq DOMAIN jobs[j]

\* a document written by createJob carries all ImportJob attributes
CreatedJobsAreWhole ==
    \A u \in Started :
        JobCreated(u) => ImportJobFields \subseteq DOMAIN jobs[JobId(u)]

\* a document that createJob did not write was written by the updateJob of
\* the catch block and holds the failed status, the errors and finished_at
PartialJobsComeFromCatch ==
    \A u \in Started :
        JobId(u) \in DOMAIN jobs /\ ~JobCreated(u) =>
            /\ up[u].failPersist = "written"
            /\ DOMAIN jobs[JobId(u)] = {"status", "errors", "finished_at"}
            /\ jobs[JobId(u)].status = "failed"

\* an upload whose checksum computation or short-circuit query failed has
\* left a job document
FailedBeforeCreateLeftDocument ==
    \E u \in Finished :
        /\ up[u].outcome = "rejected"
        /\ up[u].currentJob.status = "failed"
        /\ up[u].job[1].errors = <<StoreError>>
        /\ up[u].extractCalls = 0
        /\ JobId(u) \in DOMAIN jobs
        /\ ~JobCreated(u)

-----------------------------------------------------------------------------
(* The transaction type of Axis Bank rows, checked under SpecParse *)

\* an Axis Bank row with a date and an amount other than zero has been parsed
AxisAmountRowParsed ==
    /\ Returned("AxisBankParser.parse")
    /\ pure.kind \in {"row", "type"}
    /\ pure.amount # "0.00"

\* the narration holds one of the words the header test looks for
HasHeaderWord(narration) ==
    \E kw \in AxisHeaderKeywords : Contains(ToLower(narration), kw)

\* C28: every Axis Bank row that starts with a date and has a non-zero amount
\* yields a candidate, whose transactionType is CREDIT when its narration
\* contains credit, deposit, received, salary or inward in any case and DEBIT
\* otherwise; only table-header rows and pure separator lines are skipped.
C28_AxisRowTypeByNarration ==
    AxisAmountRowParsed =>
        /\ Len(pure.result) = 1
        /\ pure.result[1].transactionType =
              IF IsCredit(pure.narration) THEN "CREDIT" ELSE "DEBIT"

\* the same for the rows whose narration holds no word of the header test
AxisRowTypeWithoutHeaderWord ==
    AxisAmountRowParsed /\ ~HasHeaderWord(pure.narration) =>
        /\ Len(pure.result) = 1
        /\ pure.result[1].transactionType =
              IF IsCredit(pure.narration) THEN "CREDIT" ELSE "DEBIT"

\* a row whose narration holds a word of the header test yields nothing
AxisRowWithHeaderWordSkipped ==
    AxisAmountRowParsed /\ HasHeaderWord(pure.narration) => pure.result = <<>>

\* the row of a cash deposit has been parsed and no candidate came out
AxisDepositRowLost ==
    /\ AxisAmountRowParsed
    /\ pure.narration = "Cash Deposit self"
    /\ pure.result = <<>>

-----------------------------------------------------------------------------
(* useJob: polling of an import job *)

\* the job the component polls
PollJobIds == {JobId("u1")}

\* setInterval(..., 2000), in seconds
PollSeconds == 2

Terminal(status) == status \in {"completed", "failed"}

\* useJob(): the refs and the local pollInterval of a new instance. timers are
\* the intervals that were set and not cleared, handles the number of
\* intervals set so far, fetches the getJob calls in the order they were made,
\* clock the seconds since the instance was made; starts, restarted and
\* stopped record the calls made on the instance.
NewJobRefs ==
    [pc |-> "mounted", job |-> <<>>, isPolling |-> FALSE, error |-> Null,
     pollInterval |-> 0, timers |-> EmptyMap, handles |-> 0, fetches |-> <<>>,
     clock |-> 0, starts |-> 0, restarted |-> FALSE, stopped |-> FALSE]

\* fetchJob(jobId) up to its await: getJob is called. `from` is the interval
\* whose callback awaits the call, 0 for the call startPolling makes
Fetch(jobId, from, t) ==
    [jobId |-> jobId, from |-> from, pc |-> "sent", got |-> Null, at |-> t]

\* stopPolling(): the interval pollInterval refers to is cleared
stopPolling(p) ==
    [p EXCEPT !.timers = [t \in DOMAIN p.timers \ {p.pollInterval} |-> p.timers[t]],
              !.pollInterval = 0,
              !.isPolling = FALSE]

\* startPolling(jobId): a fetch is made at once, isPolling is set and a new
\* interval is set, whose handle replaces the one in pollInterval
StartPolling(jobId) ==
    /\ poll.pc = "mounted"
    /\ poll.starts < MaxStarts
    /\ Len(poll.fetches) < MaxFetches
    /\ LET id == poll.handles + 1 IN
       poll' = [poll EXCEPT
                  !.fetches = Append(@, Fetch(jobId, 0, poll.clock)),
                  !.isPolling = TRUE,
                  !.handles = id,
                  !.pollInterval = id,
                  !.timers = (id :> [jobId |-> jobId, due |-> poll.clock + PollSeconds]) @@ @,
                  !.starts = @ + 1,
                  !.restarted = (@ \/ poll.pollInterval # 0),
                  !.stopped = FALSE]
    /\ UNCHANGED <<pure, expenses, docVersion, autoIds, now, tx, calls, createdCount,
                   markDupUsed, faults, jobs, up>>

\* the component calls stopPolling()
CallStopPolling ==
    /\ poll.pc = "mounted"
    /\ poll.starts > 0
    /\ ~poll.stopped
    /\ poll' = [stopPolling(poll) EXCEPT !.stopped = TRUE]
    /\ UNCHANGED <<pure, expenses, docVersion, autoIds, now, tx, calls, createdCount,
                   markDupUsed, faults, jobs, up>>

\* the component is unmounted: onUnmounted(stopPolling)
Unmount ==
    /\ poll.pc = "mounted"
    /\ poll' = [stopPolling(poll) EXCEPT !.pc = "unmounted", !.stopped = TRUE]
    /\ UNCHANGED <<pure, expenses, docVersion, autoIds, now, tx, calls, createdCount,
                   markDupUsed, faults, jobs, up>>

\* an interval that is set fires: its callback runs up to the await of
\* fetchJob, and the interval is due again two seconds later
TimerFires(t) ==
    /\ t \in DOMAIN poll.timers
    /\ poll.timers[t].due = poll.clock
    /\ Len(poll.fetches) < MaxFetches
    /\ poll' = [poll EXCEPT
                  !.fetches = Append(@, Fetch(poll.timers[t].jobId, t, poll.clock)),
                  !.timers[t].due = @ + PollSeconds]
    /\ UNCHANGED <<pure, expenses, docVersion, autoIds, now, tx, calls, createdCount,
                   markDupUsed, faults, jobs, up>>

\* the rest of the interval callback after await fetchJob(jobId): polling is
\* stopped when job.value is terminal; the call startPolling made has no
\* such continuation
AfterFetch(p, from) ==
    IF from # 0 /\ p.job # <<>> /\ Terminal(p.job[1].status)
    THEN stopPolling(p) ELSE p

\* await getJob(jobId) resolves with the document, or with null when there is
\* none: job.value is set from a document
FetchResolves(f) ==
    /\ f \in 1..Len(poll.fetches)
    /\ poll.fetches[f].pc = "sent"
    /\ LET fetch == poll.fetches[f]
           found == fetch.jobId \in DOMAIN jobs
           p == [poll EXCEPT
                   !.fetches[f].pc = "done",
                   !.fetches[f].got = IF found THEN jobs[fetch.jobId].status
                                      ELSE "null",
                   !.job = IF found THEN <<jobs[fetch.jobId]>> ELSE @]
       IN  poll' = AfterFetch(p, fetch.from)
    /\ UNCHANGED <<pure, expenses, docVersion, autoIds, now, tx, calls, createdCount,
                   markDupUsed, faults, jobs, up>>

\* await getJob(jobId) rejects: the message is put in error
FetchRejects(f) ==
    /\ f \in 1..Len(poll.fetches)
    /\ poll.fetches[f].pc = "sent"
    /\ Fault
    /\ LET p == [poll EXCEPT !.fetches[f].pc = "done",
                             !.fetches[f].got = "error",
                             !.error = StoreError]
       IN  poll' = AfterFetch(p, poll.fetches[f].from)
    /\ UNCHANGED <<pure, expenses, docVersion, autoIds, now, tx, calls, createdCount,
                   markDupUsed, jobs, up>>

\* a second passes; an interval that is due fires first
PollTick ==
    /\ poll.clock < MaxPollTime
    /\ \A t \in DOMAIN poll.timers : poll.timers[t].due > poll.clock
    /\ poll' = [poll EXCEPT !.clock = @ + 1]
    /\ UNCHANGED <<pure, expenses, docVersion, autoIds, now, tx, calls, createdCount,
                   markDupUsed, faults, jobs, up>>

\* the upload that owns the job, in another component: createJob with the
\* job 'processing' (useUpload.ts 129-130)
UploadCreatesJob(jobId) ==
    /\ jobId \notin DOMAIN jobs
    /\ jobs' = createJob(jobs,
                  [jobId |-> jobId, status |-> "processing", source |-> "phonepe",
                   fileName |-> FebStatement.name,
                   source_file_checksum |-> FebStatement.checksum,
                   created |-> 0, skipped |-> 0, updated |-> 0, errors |-> <<>>,
                   started_at |-> now, finished_at |-> Null],
                  now)
    /\ UNCHANGED <<poll, pure, expenses, docVersion, autoIds, now, tx, calls,
                   createdCount, markDupUsed, faults, up>>

\* the upload ends: updateJob with status completed or failed
UploadEndsJob(jobId) ==
    /\ jobId \in DOMAIN jobs
    /\ jobs[jobId].status = "processing"
    /\ \E status \in {"completed", "failed"} :
          jobs' = updateJob(jobs, jobId, [status |-> status, finished_at |-> now])
    /\ UNCHANGED <<poll, pure, expenses, docVersion, autoIds, now, tx, calls,
                   createdCount, markDupUsed, faults, up>>

InitPoll ==
    /\ expenses = EmptyMap
    /\ docVersion = EmptyMap
    /\ autoIds = 0
    /\ now = 0
    /\ createdCount = EmptyMap
    /\ markDupUsed = FALSE
    /\ faults = 0
    /\ jobs = EmptyMap
    /\ tx = EmptyMap
    /\ calls = 0
    /\ up = EmptyMap
    /\ pure = NoCall
    /\ poll = NewJobRefs

NextPoll ==
    \/ \E jobId \in PollJobIds : StartPolling(jobId)
    \/ CallStopPolling
    \/ Unmount
    \/ \E t \in 1..MaxStarts : TimerFires(t)
    \/ \E f \in 1..MaxFetches : FetchResolves(f)
    \/ \E f \in 1..MaxFetches : FetchRejects(f)
    \/ PollTick
    \/ \E jobId \in PollJobIds : UploadCreatesJob(jobId)
    \/ \E jobId \in PollJobIds : UploadEndsJob(jobId)

SpecPoll == InitPoll /\ [][NextPoll]_vars

-----------------------------------------------------------------------------
(* Properties of useJob, checked under SpecPoll *)

\* a getJob call has returned the job with a terminal status
TerminalFetched ==
    \E f \in 1..Len(poll.fetches) :
        poll.fetches[f].pc = "done" /\ Terminal(poll.fetches[f].got)

\* in this step getJob call f returns the job with a terminal status
ReturnsTerminal(f) ==
    /\ poll.fetches[f].pc = "sent"
    /\ poll'.fetches[f].pc = "done"
    /\ Terminal(poll'.fetches[f].got)

\* the interval of the last startPolling is set and due within two seconds
IntervalRuns ==
    /\ poll.isPolling
    /\ poll.pollInterval \in DOMAIN poll.timers
    /\ poll.timers[poll.pollInterval].due \in poll.clock..(poll.clock + PollSeconds)

\* C29: after startPolling(jobId) the job is fetched again every two seconds
\* while its status is not terminal, and once a fetch returns the job with
\* status completed or failed polling stops: isPolling becomes false, no
\* interval stays set and no later fetch is issued.
C29_PollsUntilTerminal ==
    [][/\ (poll.starts > 0 /\ ~poll.stopped /\ ~TerminalFetched) => IntervalRuns
       /\ \A f \in 1..Len(poll.fetches) :
             ReturnsTerminal(f) =>
                /\ ~poll'.isPolling
                /\ DOMAIN poll'.timers = {}
       /\ (TerminalFetched /\ poll'.starts = poll.starts) =>
             Len(poll'.fetches) = Len(poll.fetches)]_vars

\* What the code does for one startPolling: the interval runs until a
\* callback of the interval finds job.value terminal after its fetch, whatever
\* that fetch returned, and then polling stops at once; a terminal status
\* returned to the fetch startPolling made stops nothing, and the interval
\* goes on issuing fetches until one of its callbacks resumes.
OneStartPollsUntilCallbackSeesTerminal ==
    [][poll.starts = 1 /\ poll'.starts = 1 =>
        /\ (~poll.stopped /\ ~TerminalFetched) => IntervalRuns
        /\ \A f \in 1..Len(poll.fetches) :
              (/\ poll.fetches[f].pc = "sent"
               /\ poll'.fetches[f].pc = "done"
               /\ poll.fetches[f].from # 0
               /\ poll'.job # <<>>
               /\ Terminal(poll'.job[1].status))
              => (~poll'.isPolling /\ DOMAIN poll'.timers = {})
        /\ (TerminalFetched /\ Len(poll'.fetches) > Len(poll.fetches)) =>
              /\ poll.isPolling
              /\ \A f \in 1..Len(poll.fetches) :
                    (poll.fetches[f].pc = "done" /\ Terminal(poll.fetches[f].got))
                    => poll.fetches[f].from = 0]_vars

\* the fetch startPolling made has returned the completed job; polling goes
\* on and the interval has issued another fetch
PollingAfterTerminalFetch ==
    /\ poll.starts = 1
    /\ ~poll.stopped
    /\ Len(poll.fetches) = 2
    /\ poll.fetches[1].from = 0
    /\ poll.fetches[1].got = "completed"
    /\ poll.fetches[2].at >= PollSeconds
    /\ poll.isPolling

\* C30: for any sequence of startPolling and stopPolling calls on one useJob
\* instance at most one poll timer is set at a time, and after stopPolling()
\* or the unmount of the component no poll timer stays set and no further
\* getJob fetch is started.
C30_OneTimerNoneAfterStop ==
    [][/\ Cardinality(DOMAIN poll.timers) <= 1
       /\ poll.stopped => DOMAIN poll.timers = {}
       /\ (poll.stopped /\ poll'.stopped) =>
             Len(poll'.fetches) = Len(poll.fetches)]_vars

\* the same while startPolling was never called with the interval of an
\* earlier call still set
NoLeakWithoutRestart ==
    [][~poll.restarted =>
        /\ Cardinality(DOMAIN poll.timers) <= 1
        /\ DOMAIN poll.timers \subseteq {poll.pollInterval}
        /\ poll.stopped => DOMAIN poll.timers = {}
        /\ (poll.stopped /\ poll'.stopped) =>
              Len(poll'.fetches) = Len(poll.fetches)]_vars

\* an interval that is set and that pollInterval does not refer to is never
\* cleared
LostTimerIsNeverCleared ==
    [][\A t \in DOMAIN poll.timers :
          t # poll.pollInterval => t \in DOMAIN poll'.timers]_vars

\* the component is unmounted after two startPolling calls; the first
\* interval is still set and a fetch of its callback is in flight
TimerSurvivesUnmount ==
    /\ poll.pc = "unmounted"
    /\ poll.pollInterval = 0
    /\ ~poll.isPolling
    /\ DOMAIN poll.timers = {1}
    /\ \E f \in 1..Len(poll.fetches) :
          /\ poll.fetches[f].from = 1
          /\ poll.fetches[f].pc = "sent"

====
